---- MODULE Spec2Model ----
(***************************************************************************)
(* The client connection engine of the http2 crate: the select loop of     *)
(* Connection::connect, the stream coordinator, the per-stream state       *)
(* machine of Stream, and the callers of Connection::request.              *)
(***************************************************************************)
EXTENDS Integers, Sequences, FiniteSets, TLC

\* ------------------------------------------------------------------ bounds
MaxStreamId == 1       \* largest stream id the peer references unprompted
MaxRequests == 2       \* callers of Connection::request
MaxRecv == 3           \* frames the peer sends in one run
MaxBatch == 2          \* frames one socket read may complete

\* --------------------------------------------------------- program constants
InitialWindow == 65535
DefaultMaxFrameSize == 16384
U31_MAX == 2147483647
PingLen == 8

END_STREAM == "END_STREAM"
END_HEADERS == "END_HEADERS"
ACK == "ACK"


ErrorType ==
    [NoError |-> 0, ProtocolError |-> 1, FrameSizeError |-> 6, RefusedStream |-> 7,
     Cancel |-> 8]

\* No sink / no caller.
None == 0

\* A frame: type, stream id (0 for the connection), flag set, payload
\* (octets, settings pairs, or the one number a fixed-size payload holds).
Frame(ty, stream, flags, payload) ==
    [ty |-> ty, stream |-> stream, flags |-> flags, payload |-> payload]

\* The 24-octet client connection preface, as the first thing on the wire.
Preface == Frame("Preface", 0, {}, "PRI * HTTP/2.0\r\n\r\nSM\r\n\r\n")

\* u32::MAX, which is beyond TLC's 32-bit integers and enters no
\* arithmetic of the engine.
U32_MAX == "u32::MAX"

\* ------------------------------------------------------------------ HPACK
\* The entries of the static table the modelled header blocks index.
STATIC_TABLE ==
    [i \in {8, 9, 16} |->
        CASE i = 8 -> <<":status", "200">>
          [] i = 9 -> <<":status", "204">>
          [] i = 16 -> <<"accept-encoding", "gzip, deflate">>]

\* Headers::entry(key).or_default().push(value)
HeadersPush(headers, key, value) ==
    [k \in DOMAIN headers \cup {key} |->
        IF k \in DOMAIN headers
            THEN (IF k = key THEN Append(headers[k], value) ELSE headers[k])
            ELSE <<value>>]

\* Decoder::decode_with_cb on a block of indexed header fields (1xxxxxxx):
\* every octet 128 + i emits static-table entry i through the callback.
RECURSIVE DecodeInto(_, _)
DecodeInto(headers, block) ==
    IF block = <<>> THEN headers
    ELSE LET entry == STATIC_TABLE[block[1] - 128]
         IN DecodeInto(HeadersPush(headers, entry[1], entry[2]), Tail(block))

DecodeOk(block) == \A i \in 1..Len(block) : (block[i] - 128) \in DOMAIN STATIC_TABLE

\* ----------------------------------------------------------------- Stream
\* Stream::new
NewStream(id) ==
    [id |-> id,
     response_tx |-> None,
     window_remaining |-> InitialWindow,
     state |-> "Idle",
     continuing |-> "None",
     dependency |-> None,
     headers_buffer |-> <<>>,
     body_buffer |-> <<>>,
     response_headers |-> <<>>]

\* A transition_state that takes a completing PUSH_PROMISE for a completing
\* HEADERS: C23 depends on the reserved states.
transition_state_push_opens(stream, recv, ty, flags) ==
    LET send == ~recv
        h == CASE ty = "Headers" -> END_HEADERS \in flags
               [] ty = "Continuation" ->
                      stream.continuing = "Headers" /\ END_HEADERS \in flags
               [] OTHER -> FALSE
        pp == CASE ty = "PushPromise" -> END_HEADERS \in flags
                [] ty = "Continuation" ->
                       stream.continuing = "PushPromise" /\ END_HEADERS \in flags
                [] OTHER -> FALSE
        es == ty \in {"Data", "Headers"} /\ END_STREAM \in flags
        s0 == stream.state
        s1 == IF s0 = "Idle"
                THEN (IF h \/ pp THEN "Open" ELSE s0)
                ELSE s0
        s2 == IF s1 = "ReservedLocal" /\ send /\ h THEN "HalfClosedRemote" ELSE s1
        s3 == IF s2 = "ReservedRemote" /\ recv /\ h THEN "HalfClosedLocal" ELSE s2
        s4 == IF s3 = "Open" /\ send /\ es THEN "HalfClosedLocal" ELSE s3
        s5 == IF s4 = "Open" /\ recv /\ es THEN "HalfClosedRemote" ELSE s4
        s6 == IF s5 = "HalfClosedRemote" /\ send /\ es THEN "Closed" ELSE s5
        s7 == IF s6 = "HalfClosedLocal" /\ recv /\ es THEN "Closed" ELSE s6
    IN IF ty = "ResetStream"
         THEN (IF s0 = "Idle" THEN "Err" ELSE "Closed")
         ELSE s7

\* A transition_state whose END_STREAM steps do not look at the direction:
\* C24 depends on `send` and `recv` in them.
transition_state_any_direction(stream, recv, ty, flags) ==
    LET send == ~recv
        h == CASE ty = "Headers" -> END_HEADERS \in flags
               [] ty = "Continuation" ->
                      stream.continuing = "Headers" /\ END_HEADERS \in flags
               [] OTHER -> FALSE
        pp == CASE ty = "PushPromise" -> END_HEADERS \in flags
                [] ty = "Continuation" ->
                       stream.continuing = "PushPromise" /\ END_HEADERS \in flags
                [] OTHER -> FALSE
        es == ty \in {"Data", "Headers"} /\ END_STREAM \in flags
        s0 == stream.state
        s1 == IF s0 = "Idle"
                THEN (IF send /\ pp THEN "ReservedLocal"
                      ELSE IF recv /\ pp THEN "ReservedRemote"
                      ELSE IF h THEN "Open" ELSE s0)
                ELSE s0
        s2 == IF s1 = "ReservedLocal" /\ send /\ h THEN "HalfClosedRemote" ELSE s1
        s3 == IF s2 = "ReservedRemote" /\ recv /\ h THEN "HalfClosedLocal" ELSE s2
        s4 == IF s3 = "Open" /\ send /\ es THEN "HalfClosedLocal" ELSE s3
        s5 == IF s4 = "Open" /\ recv /\ es THEN "HalfClosedRemote" ELSE s4
        s6 == IF s5 = "HalfClosedRemote" /\ es THEN "Closed" ELSE s5
        s7 == IF s6 = "HalfClosedLocal" /\ es THEN "Closed" ELSE s6
    IN IF ty = "ResetStream"
         THEN (IF s0 = "Idle" THEN "Err" ELSE "Closed")
         ELSE s7

\* A transition_state that opens the stream on a completing HEADERS whatever
\* its state: C27 depends on the test for Idle.
transition_state_reopens(stream, recv, ty, flags) ==
    LET send == ~recv
        h == CASE ty = "Headers" -> END_HEADERS \in flags
               [] ty = "Continuation" ->
                      stream.continuing = "Headers" /\ END_HEADERS \in flags
               [] OTHER -> FALSE
        pp == CASE ty = "PushPromise" -> END_HEADERS \in flags
                [] ty = "Continuation" ->
                       stream.continuing = "PushPromise" /\ END_HEADERS \in flags
                [] OTHER -> FALSE
        es == ty \in {"Data", "Headers"} /\ END_STREAM \in flags
        s0 == stream.state
        s1 == IF s0 = "Idle"
                THEN (IF send /\ pp THEN "ReservedLocal"
                      ELSE IF recv /\ pp THEN "ReservedRemote"
                      ELSE IF h THEN "Open" ELSE s0)
                ELSE (IF h THEN "Open" ELSE s0)
        s2 == IF s1 = "ReservedLocal" /\ send /\ h THEN "HalfClosedRemote" ELSE s1
        s3 == IF s2 = "ReservedRemote" /\ recv /\ h THEN "HalfClosedLocal" ELSE s2
        s4 == IF s3 = "Open" /\ send /\ es THEN "HalfClosedLocal" ELSE s3
        s5 == IF s4 = "Open" /\ recv /\ es THEN "HalfClosedRemote" ELSE s4
        s6 == IF s5 = "HalfClosedRemote" /\ send /\ es THEN "Closed" ELSE s5
        s7 == IF s6 = "HalfClosedLocal" /\ recv /\ es THEN "Closed" ELSE s6
    IN IF ty = "ResetStream"
         THEN (IF s0 = "Idle" THEN "Err" ELSE "Closed")
         ELSE s7

\* Stream::transition_state: the new state, or "Err" (ResetStream on Idle).
transition_state(stream, recv, ty, flags) ==
    LET send == ~recv
        h == CASE ty = "Headers" -> END_HEADERS \in flags
               [] ty = "Continuation" ->
                      stream.continuing = "Headers" /\ END_HEADERS \in flags
               [] OTHER -> FALSE
        pp == CASE ty = "PushPromise" -> END_HEADERS \in flags
                [] ty = "Continuation" ->
                       stream.continuing = "PushPromise" /\ END_HEADERS \in flags
                [] OTHER -> FALSE
        es == ty \in {"Data", "Headers"} /\ END_STREAM \in flags
        s0 == stream.state
        s1 == IF s0 = "Idle"
                THEN (IF send /\ pp THEN "ReservedLocal"
                      ELSE IF recv /\ pp THEN "ReservedRemote"
                      ELSE IF h THEN "Open" ELSE s0)
                ELSE s0
        s2 == IF s1 = "ReservedLocal" /\ send /\ h THEN "HalfClosedRemote" ELSE s1
        s3 == IF s2 = "ReservedRemote" /\ recv /\ h THEN "HalfClosedLocal" ELSE s2
        s4 == IF s3 = "Open" /\ send /\ es THEN "HalfClosedLocal" ELSE s3
        s5 == IF s4 = "Open" /\ recv /\ es THEN "HalfClosedRemote" ELSE s4
        s6 == IF s5 = "HalfClosedRemote" /\ send /\ es THEN "Closed" ELSE s5
        s7 == IF s6 = "HalfClosedLocal" /\ recv /\ es THEN "Closed" ELSE s6
    IN IF ty = "ResetStream"
         THEN (IF s0 = "Idle" THEN "Err" ELSE "Closed")
         ELSE s7

\* A send_response that leaves the sink in place (no take()): C2 depends on
\* the sink being taken.
send_response_keeps_sink(stream) ==
    IF stream.response_tx # None
      THEN [stream |-> stream,
            resp |-> <<[request_id |-> stream.response_tx,
                        headers |-> stream.response_headers,
                        body |-> stream.body_buffer]>>]
      ELSE [stream |-> stream, resp |-> <<>>]

\* Stream::send_response: the stream after the sink is taken, and the
\* Response handed to the sink (none when the sink is already gone).
send_response(stream) ==
    IF stream.response_tx # None
      THEN [stream |-> [stream EXCEPT !.response_tx = None],
            resp |-> <<[request_id |-> stream.response_tx,
                        headers |-> stream.response_headers,
                        body |-> stream.body_buffer]>>]
      ELSE [stream |-> stream, resp |-> <<>>]

\* decode_headers without self.headers_buffer.clear().
decode_headers_keeps_buffer(stream) ==
    [stream EXCEPT
        !.response_headers = DecodeInto(stream.response_headers, stream.headers_buffer)]

\* Stream::decode_headers on a block the decoder accepts.
decode_headers(stream) ==
    [stream EXCEPT
        !.response_headers = DecodeInto(stream.response_headers, stream.headers_buffer),
        !.headers_buffer = <<>>]

\* What one call of Stream::handle_frame gives back.
Handled(stream, out, resp) == [ok |-> TRUE, stream |-> stream, out |-> out, resp |-> resp]

\* An error found only after the state was set to Closed: C25 depends on
\* the error leaving the stream as it was.
Failed_closes(stream) ==
    [ok |-> FALSE, stream |-> [stream EXCEPT !.state = "Closed"],
     out |-> <<>>, resp |-> <<>>]

Failed(stream) == [ok |-> FALSE, stream |-> stream, out |-> <<>>, resp |-> <<>>]

\* A Data arm that sends its WINDOW_UPDATEs whatever the length: C17 depends
\* on the test for a non-zero length.
DataArm_always_updates(st, frame) ==
    LET length == Len(frame.payload)
        updates == <<Frame("WindowUpdate", st.id, {}, length),
                     Frame("WindowUpdate", 0, {}, length)>>
        st1 == [st EXCEPT !.body_buffer = st.body_buffer \o frame.payload]
    IN IF END_STREAM \in frame.flags
         THEN Handled(send_response(st1).stream, updates, send_response(st1).resp)
         ELSE Handled(st1, updates, <<>>)

DataArm(st, frame) ==
    LET length == Len(frame.payload)
        updates == IF length # 0
                     THEN <<Frame("WindowUpdate", st.id, {}, length),
                            Frame("WindowUpdate", 0, {}, length)>>
                     ELSE <<>>
        st1 == [st EXCEPT !.body_buffer = st.body_buffer \o frame.payload]
    IN IF END_STREAM \in frame.flags
         THEN Handled(send_response(st1).stream, updates, send_response(st1).resp)
         ELSE Handled(st1, updates, <<>>)

HeadersArm(st, frame) ==
    LET st1 == IF "PRIORITY" \in frame.flags
                 THEN [st EXCEPT !.dependency = frame.payload[1]]
                 ELSE st
        fragment == IF "PRIORITY" \in frame.flags THEN Tail(frame.payload) ELSE frame.payload
        st2 == [st1 EXCEPT !.headers_buffer = st1.headers_buffer \o fragment]
    IN IF END_HEADERS \in frame.flags
         THEN IF ~DecodeOk(st2.headers_buffer) THEN Failed(st2)
              ELSE LET st3 == decode_headers(decode_headers(st2))
                   IN IF END_STREAM \in frame.flags
                        THEN Handled(send_response(st3).stream, <<>>, send_response(st3).resp)
                        ELSE Handled(st3, <<>>, <<>>)
         ELSE Handled([st2 EXCEPT !.continuing = "Headers"], <<>>, <<>>)

PushPromiseArm(st, frame) ==
    LET st1 == [st EXCEPT !.headers_buffer = st.headers_buffer \o frame.payload]
    IN IF END_HEADERS \in frame.flags
         THEN IF ~DecodeOk(st1.headers_buffer) THEN Failed(st1)
              ELSE Handled(decode_headers(st1), <<>>, <<>>)
         ELSE Handled([st1 EXCEPT !.continuing = "PushPromise"], <<>>, <<>>)

WindowUpdateArm(st, frame) ==
    Handled([st EXCEPT !.window_remaining =
                 st.window_remaining + (st.window_remaining + frame.payload)],
            <<>>, <<>>)

ContinuationArm(st, frame) ==
    LET st1 == [st EXCEPT !.headers_buffer = st.headers_buffer \o frame.payload]
    IN IF END_HEADERS \in frame.flags
         THEN IF ~DecodeOk(st1.headers_buffer) THEN Failed([st1 EXCEPT !.continuing = "None"])
              ELSE LET st2 == decode_headers([st1 EXCEPT !.continuing = "None"])
                   IN IF st2.state # "Open"
                        THEN Handled(send_response(st2).stream, <<>>, send_response(st2).resp)
                        ELSE Handled(st2, <<>>, <<>>)
         ELSE Handled(st1, <<>>, <<>>)

\* Stream::handle_frame after `self.transition_state(..)?` gave `next`: the
\* match on the frame's type.
HandleArms(stream, frame, next) ==
    LET st == [stream EXCEPT !.state = next]
    IN IF next = "Err" THEN Failed(stream)
       ELSE CASE frame.ty = "Data" -> DataArm(st, frame)
              [] frame.ty = "Headers" -> HeadersArm(st, frame)
              [] frame.ty = "Priority" ->
                     Handled([st EXCEPT !.dependency = frame.payload], <<>>, <<>>)
              [] frame.ty = "ResetStream" -> Handled(st, <<>>, <<>>)
              [] frame.ty = "PushPromise" -> PushPromiseArm(st, frame)
              [] frame.ty = "WindowUpdate" -> WindowUpdateArm(st, frame)
              [] frame.ty = "Continuation" -> ContinuationArm(st, frame)

\* Stream::handle_frame: transition_state, then the arm of the frame's type.
handle_frame(stream, frame) ==
    HandleArms(stream, frame, transition_state(stream, TRUE, frame.ty, frame.flags))

\* ------------------------------------------------------ StreamCoordinator
\* with_stream without the fetch_update of the id counter.
with_stream_keeps_id(streams, id, sid) ==
    IF sid \in DOMAIN streams
      THEN [streams |-> streams, id |-> id]
      ELSE [streams |-> [k \in DOMAIN streams \cup {sid} |->
                            IF k = sid THEN NewStream(sid) ELSE streams[k]],
            id |-> id]

\* StreamCoordinator::with_stream, the entry part: the stream table and the
\* id counter after stream `sid` has been looked up or created.
with_stream(streams, id, sid) ==
    IF sid \in DOMAIN streams
      THEN [streams |-> streams, id |-> id]
      ELSE [streams |-> [k \in DOMAIN streams \cup {sid} |->
                            IF k = sid THEN NewStream(sid) ELSE streams[k]],
            id |-> IF sid >= id THEN sid + 1 ELSE id]

\* StreamCoordinator::with_new_stream: fetch_add(1) gives the new stream its
\* id, with_stream inserts it.
with_new_stream(streams, id) ==
    [sid |-> id] @@ with_stream(streams, id + 1, id)

\* --------------------------------------------------- Connection::connect
SettingsParameter ==
    {"HeaderTableSize", "EnablePush", "MaxConcurrentStreams",
     "InitialWindowSize", "MaxFrameSize", "MaxHeaderListSize"}

\* for (key, value) in params { their_settings[key] = value; }
RECURSIVE ApplySettings(_, _)
ApplySettings(settings, params) ==
    IF params = <<>> THEN settings
    ELSE ApplySettings([settings EXCEPT ![params[1][1]] = params[1][2]], Tail(params))

\* The client's own SETTINGS frame, queued on the first SETTINGS received.
InitialSettings ==
    Frame("Settings", 0, {}, <<<<"EnablePush", 0>>, <<"InitialWindowSize", U31_MAX>>>>)

SettingsAck == Frame("Settings", 0, {ACK}, <<>>)

\* The arms of the handle_frame closure that the engine handles itself.
SettingsArm(c, frame) ==
    [c EXCEPT
        !.their_settings = ApplySettings(c.their_settings, frame.payload),
        !.ready = TRUE,
        !.write_buf = c.write_buf
                      \o (IF ~c.ready THEN <<InitialSettings>> ELSE <<>>)
                      \o <<SettingsAck>>]

\* A Ping arm that does not look at the ACK flag: C10 depends on the test.
PingArm_ignores_ack(c, frame) ==
    IF Len(frame.payload) = PingLen
      THEN [c EXCEPT !.write_buf = Append(c.write_buf,
                                          Frame("Ping", 0, {ACK}, frame.payload))]
      ELSE [c EXCEPT !.write_buf = Append(c.write_buf,
                                          Frame("GoAway", 0, {}, ErrorType.ProtocolError))]

PingArm(c, frame) ==
    IF ACK \notin frame.flags
      THEN IF Len(frame.payload) = PingLen
             THEN [c EXCEPT !.write_buf = Append(c.write_buf,
                                                 Frame("Ping", 0, {ACK}, frame.payload))]
             ELSE [c EXCEPT !.write_buf = Append(c.write_buf,
                                                 Frame("GoAway", 0, {}, ErrorType.ProtocolError))]
      ELSE c

ConnWindowUpdateArm(c, frame) ==
    [c EXCEPT !.window_remaining = c.window_remaining + frame.payload]

\* The arms that go through streams.with_stream(stream, |s| s.on_frame(..)):
\* an Err from the stream makes the engine task panic (expect("handle_frame")).
\* ws is the coordinator after the lookup, r what the stream's handler gave.
StreamFrameResult(c, frame, ws, r) ==
    IF r.ok
      THEN [c EXCEPT !.streams = [ws.streams EXCEPT ![frame.stream] = r.stream],
                     !.id = ws.id,
                     !.write_buf = c.write_buf \o r.out,
                     !.responses = c.responses \o r.resp]
      ELSE [c EXCEPT !.streams = ws.streams,
                     !.id = ws.id,
                     !.status = "panicked"]

StreamFrameOn(c, frame, ws) ==
    StreamFrameResult(c, frame, ws, handle_frame(ws.streams[frame.stream], frame))

StreamFrameArm(c, frame) ==
    StreamFrameOn(c, frame, with_stream(c.streams, c.id, frame.stream))

\* The handle_frame closure of the engine loop.
conn_handle_frame(c, frame) ==
    CASE frame.ty = "Settings" -> SettingsArm(c, frame)
      [] frame.ty = "Ping" -> PingArm(c, frame)
      [] frame.ty = "GoAway" -> c
      [] frame.ty = "WindowUpdate" /\ frame.stream = 0 -> ConnWindowUpdateArm(c, frame)
      [] OTHER -> StreamFrameArm(c, frame)

\* What a received frame adds to the record of its stream: END_STREAM on
\* DATA or HEADERS, END_HEADERS on HEADERS or on the CONTINUATION that ends
\* a block HEADERS opened, "RST" for RST_STREAM, "PP" for PUSH_PROMISE.
FlagsOf(c, frame) ==
    LET pending == IF frame.stream \in DOMAIN c.streams
                     THEN c.streams[frame.stream].continuing ELSE "None"
    IN (IF frame.ty \in {"Data", "Headers"} /\ END_STREAM \in frame.flags
          THEN {END_STREAM} ELSE {})
       \cup
       (IF END_HEADERS \in frame.flags
           /\ (frame.ty = "Headers" \/ (frame.ty = "Continuation" /\ pending = "Headers"))
          THEN {END_HEADERS} ELSE {})
       \cup
       (IF frame.ty = "ResetStream" THEN {"RST"} ELSE {})
       \cup
       (IF frame.ty = "PushPromise" THEN {"PP"} ELSE {})

\* Frame `frame` arrives while a header block is open (some stream has
\* `continuing` set) and is not a CONTINUATION of that stream.
Interleaves(c, frame) ==
    \E s \in DOMAIN c.streams :
        /\ c.streams[s].continuing # "None"
        /\ ~(frame.ty = "Continuation" /\ frame.stream = s)

\* The observers after frame `frame` took the engine from c to c2.
Observe(c, frame, c2) ==
    LET s == frame.stream
        fresh == SubSeq(c2.responses, Len(c.responses) + 1, Len(c2.responses))
    IN [c2 EXCEPT
           !.rcvd = [settings |-> c.rcvd.settings
                          + (IF frame.ty = "Settings" /\ ACK \notin frame.flags THEN 1 ELSE 0),
                     settings_ack |-> c.rcvd.settings_ack
                          + (IF frame.ty = "Settings" /\ ACK \in frame.flags THEN 1 ELSE 0),
                     pings |-> c.rcvd.pings
                          \o (IF frame.ty = "Ping" /\ ACK \notin frame.flags
                                 /\ Len(frame.payload) = PingLen
                               THEN <<frame.payload>> ELSE <<>>),
                     bad_pings |-> c.rcvd.bad_pings
                          + (IF frame.ty = "Ping" /\ ACK \notin frame.flags
                                /\ Len(frame.payload) # PingLen
                             THEN 1 ELSE 0),
                     ping_acks |-> c.rcvd.ping_acks
                          + (IF frame.ty = "Ping" /\ ACK \in frame.flags THEN 1 ELSE 0),
                     interleaved |-> c.rcvd.interleaved
                          + (IF Interleaves(c, frame) THEN 1 ELSE 0),
                     goaways |-> c.rcvd.goaways
                          + (IF frame.ty = "GoAway" THEN 1 ELSE 0),
                     data |-> c.rcvd.data
                          \o (IF frame.ty = "Data"
                               THEN <<[stream |-> frame.stream,
                                       length |-> Len(frame.payload)]>>
                               ELSE <<>>),
                     frames |-> c.rcvd.frames + 1],
           !.flags_seen =
               IF FlagsOf(c, frame) = {} THEN c.flags_seen
               ELSE [k \in DOMAIN c.flags_seen \cup {s} |->
                       IF k = s
                         THEN (IF s \in DOMAIN c.flags_seen THEN c.flags_seen[s] ELSE {})
                              \cup FlagsOf(c, frame)
                         ELSE c.flags_seen[k]],
           !.delivered = c.delivered
                         \o [i \in 1..Len(fresh) |-> [stream |-> s, response |-> fresh[i]]]]

\* The inner loop of the read branch: every complete frame of the read is
\* dispatched in order; a panic ends the task with the rest undispatched.
RECURSIVE DispatchAll(_, _)
DispatchAll(c, frames) ==
    IF frames = <<>> \/ c.status # "running" THEN c
    ELSE DispatchAll(Observe(c, frames[1], conn_handle_frame(c, frames[1])), Tail(frames))

\* Request::into_bytes: the frames one request puts into the write buffer.
RequestFragment == <<130, 135, 132>>

\* An into_bytes that ends the stream on HEADERS whatever the body: C11
\* depends on the flags following the body.
into_bytes_always_ends(sid, body) ==
    IF body = <<>>
      THEN <<Frame("Headers", sid, {END_STREAM, END_HEADERS}, RequestFragment)>>
      ELSE <<Frame("Headers", sid, {END_STREAM, END_HEADERS}, RequestFragment),
             Frame("Data", sid, {END_STREAM}, body)>>

into_bytes(sid, body) ==
    IF body = <<>>
      THEN <<Frame("Headers", sid, {END_STREAM, END_HEADERS}, RequestFragment)>>
      ELSE <<Frame("Headers", sid, {END_HEADERS}, RequestFragment),
             Frame("Data", sid, {END_STREAM}, body)>>

\* The stream after the frames of a request have been written on it: each
\* frame sent takes the send side of transition_state.
RECURSIVE SendTransition(_, _)
SendTransition(stream, frames) ==
    IF frames = <<>> THEN stream
    ELSE SendTransition(
             [stream EXCEPT !.state =
                 transition_state(stream, FALSE, frames[1].ty, frames[1].flags)],
             Tail(frames))

\* ------------------------------------------------------------------ state
VARIABLES
    status,            \* the engine task: "running", "panicked", "closed"
    ready,             \* ready: a SETTINGS frame has been received
    their_settings,    \* their_settings
    streams,           \* StreamCoordinator.streams
    id,                \* StreamCoordinator.id
    window_remaining,  \* the connection's window_remaining
    write_buf,         \* write_buf, as frames
    wire,              \* what the writer half has been given, in order
    inbox,             \* the mpsc request queue
    conn_dropped,      \* the Connection (and its queue sender) is dropped
    callers,           \* each caller of Connection::request
    rx,                \* each caller's broadcast receiver
    rcvd,              \* what has been received: SETTINGS counts, PING payloads
    flags_seen,        \* per stream: END_STREAM / END_HEADERS received so far
    delivered,         \* every Response sent to a sink, with its stream
    admitted,          \* every request taken from the inbox, with its stream
    placed,            \* every request id put on the inbox, in order
    call               \* a codec or a stream exercised on its own: the last
                       \* call made on it, with its arguments and its result

engine == <<status, ready, their_settings, streams, id, window_remaining, write_buf,
            wire, inbox, conn_dropped, callers, rx, rcvd,
            flags_seen, delivered, admitted, placed>>

vars == <<engine, call>>

StreamIds == 1..MaxStreamId
Callers == 1..MaxRequests
Bodies == {<<>>, <<7>>}

LargeBody == [i \in 1..(DefaultMaxFrameSize + 1) |-> 0]

PingPayloads == {<<1, 2, 3, 4, 5, 6, 7, 8>>, <<8, 7, 6, 5, 4, 3, 2, 1>>, <<1, 2, 3, 4, 5, 6, 7>>}

\* The peer's SETTINGS: it limits the streams and starts every stream's
\* send window at 0, so that DATA waits for its WINDOW_UPDATE.
PeerSettings ==
    Frame("Settings", 0, {}, <<<<"MaxConcurrentStreams", 100>>, <<"InitialWindowSize", 0>>>>)

\* The frames the peer may send.
ConnFrames ==
    {PeerSettings,
     Frame("Settings", 0, {ACK}, <<>>),
     Frame("GoAway", 0, {}, ErrorType.NoError)}
    \cup {Frame("Ping", 0, {}, p) : p \in PingPayloads}
    \cup {Frame("Ping", 0, {ACK}, <<8, 7, 6, 5, 4, 3, 2, 1>>)}

StreamFrames(s) ==
    {Frame("Data", s, {}, <<>>),
     Frame("Data", s, {}, <<40 + s>>),
     Frame("Data", s, {END_STREAM}, <<50 + s>>),
     Frame("ResetStream", s, {}, ErrorType.Cancel),
     Frame("PushPromise", s, {}, <<137>>)}
    \cup {Frame("Headers", s, fl, <<136>>) : fl \in SUBSET {END_STREAM, END_HEADERS}}
    \cup {Frame("Continuation", s, fl, <<144>>) : fl \in SUBSET {END_HEADERS}}

\* The peer addresses the streams 1..MaxStreamId and every stream that exists.
PeerFrames == ConnFrames \cup UNION {StreamFrames(s) : s \in StreamIds \cup DOMAIN streams}

\* The frames of a peer that does nothing but answer: its SETTINGS, and on
\* the streams that exist a headers-only response or a final DATA frame.
AnswerFrames ==
    {PeerSettings}
    \cup UNION {{Frame("Headers", s, {END_STREAM, END_HEADERS}, <<136>>),
                 Frame("Data", s, {END_STREAM}, <<50 + s>>)} : s \in DOMAIN streams}

\* What one read can complete: 1..MaxBatch frames, within the peer's budget.
BatchesOf(frames) ==
    UNION {[1..n -> frames] : n \in 1..(IF MaxRecv - rcvd.frames < MaxBatch
                                              THEN MaxRecv - rcvd.frames ELSE MaxBatch)}

EngineInit ==
    /\ status = "running"
    /\ ready = FALSE
    /\ their_settings =
           [p \in SettingsParameter |->
               CASE p = "HeaderTableSize" -> 4096
                 [] p = "EnablePush" -> 1
                 [] p = "MaxConcurrentStreams" -> U32_MAX
                 [] p = "InitialWindowSize" -> InitialWindow
                 [] p = "MaxFrameSize" -> DefaultMaxFrameSize
                 [] p = "MaxHeaderListSize" -> U32_MAX]
    /\ streams = <<>>
    /\ id = 1
    /\ window_remaining = InitialWindow
    /\ write_buf = <<>>
    /\ wire = <<Preface>>
    /\ inbox = <<>>
    /\ conn_dropped = FALSE
    /\ callers = [c \in Callers |-> [pc |-> "idle", id |-> None, body |-> <<>>, result |-> <<>>]]
    /\ rx = [c \in Callers |-> <<>>]
    /\ rcvd = [settings |-> 0, settings_ack |-> 0, pings |-> <<>>, bad_pings |-> 0,
               ping_acks |-> 0, interleaved |-> 0,
               goaways |-> 0, data |-> <<>>, frames |-> 0]
    /\ flags_seen = <<>>
    /\ delivered = <<>>
    /\ admitted = <<>>
    /\ placed = <<>>

\* No call: the engine runs, nothing is exercised on its own.
Init == EngineInit /\ call = [op |-> "none"]

\* A queue that gives its newest request first: C6 depends on the order.
recv_newest(queue) ==
    [request |-> queue[Len(queue)], rest |-> SubSeq(queue, 1, Len(queue) - 1)]

\* request_rx.recv(): the oldest request of the queue, and the queue without it.
recv(queue) == [request |-> Head(queue), rest |-> Tail(queue)]

\* A caller that takes whatever response comes first: C3 depends on the filter.
RecvMatches_any(c, response) == TRUE

\* Connection::request: response.request_id == id
RecvMatches(c, response) == response.request_id = callers[c].id

\* A request branch without its precondition: C7 depends on `if was_ready`.
was_ready_always == TRUE

\* was_ready: `ready` as it was when the loop iteration began.
was_ready == ready

\* The engine's state as one value, for the dispatch of a read.
Engine ==
    [status |-> status, ready |-> ready, their_settings |-> their_settings,
     streams |-> streams, id |-> id, window_remaining |-> window_remaining,
     write_buf |-> write_buf, responses |-> <<>>, rcvd |-> rcvd,
     flags_seen |-> flags_seen, delivered |-> delivered]

\* A send that reaches nobody once any receiver has been dropped: C16
\* depends on the live receivers still getting the responses.
Broadcast_needs_all(responses) ==
    [c \in Callers |->
        IF callers[c].pc = "waiting"
           /\ \A d \in Callers : callers[d].pc \notin {"dropped", "abandoned"}
          THEN rx[c] \o responses ELSE rx[c]]

\* response_tx.send(response): every live receiver gets the responses.
Broadcast(responses) ==
    [c \in Callers |->
        IF callers[c].pc = "waiting" THEN rx[c] \o responses ELSE rx[c]]

\* select!: reader.read_buf completes, every complete frame is dispatched.
ReadOf(batches) ==
    /\ status = "running"
    /\ \E batch \in batches :
          /\ \E c \in {DispatchAll(Engine, batch)} :
                /\ status' = c.status
                /\ ready' = c.ready
                /\ their_settings' = c.their_settings
                /\ streams' = c.streams
                /\ id' = c.id
                /\ window_remaining' = c.window_remaining
                /\ write_buf' = c.write_buf
                /\ rcvd' = c.rcvd
                /\ flags_seen' = c.flags_seen
                /\ delivered' = c.delivered
                /\ rx' = Broadcast(c.responses)
    /\ UNCHANGED <<call, wire, inbox, conn_dropped, callers, admitted, placed>>

ReadBranch == ReadOf(BatchesOf(PeerFrames))

\* The read branch with a peer that only answers.
ReadAnswers == ReadOf(BatchesOf(AnswerFrames))

\* select!: writer.write_buf takes some of the buffer, in order.
WriteBranch ==
    /\ status = "running"
    /\ write_buf # <<>>
    /\ \E k \in 1..Len(write_buf) :
          /\ wire' = wire \o SubSeq(write_buf, 1, k)
          /\ write_buf' = SubSeq(write_buf, k + 1, Len(write_buf))
    /\ UNCHANGED <<call, status, ready, their_settings, streams, id, window_remaining, inbox,
                   conn_dropped, callers, rx, rcvd, flags_seen, delivered,
                   admitted, placed>>

\* select!: request_rx.recv() gives a request, which is written on a new
\* stream; the stream's sink is the request's (request.rs: stream.response_tx
\* = Some(response_tx)), so that a Response carries the request's id.
RequestBranch ==
    /\ status = "running"
    /\ was_ready
    /\ inbox # <<>>
    /\ LET request == recv(inbox).request
           ws == with_new_stream(streams, id)
           frames == into_bytes(ws.sid, request.body)
           stream == SendTransition([ws.streams[ws.sid] EXCEPT !.response_tx = request.id],
                                    frames)
       IN /\ streams' = [ws.streams EXCEPT ![ws.sid] = stream]
          /\ id' = ws.id
          /\ write_buf' = write_buf \o frames
          /\ admitted' = Append(admitted, [request |-> request.id, stream |-> ws.sid])
    /\ inbox' = recv(inbox).rest
    /\ UNCHANGED <<call, status, ready, their_settings, window_remaining, wire, conn_dropped,
                   callers, rx, rcvd, flags_seen, delivered, placed>>

\* select!: request_rx.recv() gives None, every sender is gone: the task returns.
RequestClosed ==
    /\ status = "running"
    /\ was_ready
    /\ inbox = <<>>
    /\ conn_dropped
    /\ status' = "closed"
    /\ UNCHANGED <<call, ready, their_settings, streams, id, window_remaining, write_buf, wire,
                   inbox, conn_dropped, callers, rx, rcvd, flags_seen,
                   delivered, admitted, placed>>

\* Connection::request up to its first await on the receiver: caller c is
\* the one whose REQUEST_ID.fetch_add gave c; it subscribes, then sends its
\* request to the queue, which fails when the engine task has ended.
SubmitOf(c, bodies) ==
    /\ callers[c].pc = "idle"
    /\ ~conn_dropped
    /\ \E body \in bodies :
          IF status = "running"
            THEN /\ inbox' = Append(inbox, [id |-> c, body |-> body])
                 /\ placed' = Append(placed, c)
                 /\ callers' = [callers EXCEPT ![c] = [pc |-> "waiting", id |-> c,
                                                       body |-> body, result |-> <<>>]]
            ELSE /\ inbox' = inbox
                 /\ placed' = placed
                 /\ callers' = [callers EXCEPT ![c] = [pc |-> "failed", id |-> c,
                                                       body |-> body, result |-> <<>>]]
    /\ UNCHANGED <<call, status, ready, their_settings, streams, id, window_remaining, write_buf,
                   wire, conn_dropped, rx, rcvd, flags_seen, delivered, admitted>>

Submit(c) == SubmitOf(c, Bodies)

\* A caller whose body, when it has one, is one octet longer than the
\* largest frame the peer accepts by default.
SubmitLarge(c) == SubmitOf(c, {<<>>, LargeBody})

\* Connection::request: one turn of the loop around receiver.recv().
Recv(c) ==
    /\ callers[c].pc = "waiting"
    /\ rx[c] # <<>>
    /\ IF RecvMatches(c, Head(rx[c]))
         THEN /\ callers' = [callers EXCEPT ![c].pc = "done", ![c].result = <<Head(rx[c])>>]
              /\ rx' = [rx EXCEPT ![c] = <<>>]
         ELSE /\ callers' = callers
              /\ rx' = [rx EXCEPT ![c] = Tail(rx[c])]
    /\ UNCHANGED <<call, status, ready, their_settings, streams, id, window_remaining, write_buf,
                   wire, inbox, conn_dropped, rcvd, flags_seen,
                   delivered, admitted, placed>>

\* The caller drops the future of Connection::request while it awaits the
\* receiver, which drops the receiver with it. pc tells whether the response
\* of the request had been sent by then ("abandoned") or not ("dropped").
Cancel(c) ==
    /\ callers[c].pc = "waiting"
    /\ callers' = [callers EXCEPT ![c].pc =
                      IF \E i \in 1..Len(delivered) :
                             delivered[i].response.request_id = callers[c].id
                        THEN "abandoned" ELSE "dropped"]
    /\ rx' = [rx EXCEPT ![c] = <<>>]
    /\ UNCHANGED <<call, status, ready, their_settings, streams, id, window_remaining, write_buf,
                   wire, inbox, conn_dropped, rcvd, flags_seen,
                   delivered, admitted, placed>>

\* The owner drops the Connection once its requests have returned.
DropConnection ==
    /\ ~conn_dropped
    /\ \A c \in Callers : callers[c].pc \in {"done", "failed", "dropped", "abandoned"}
    /\ conn_dropped' = TRUE
    /\ UNCHANGED <<call, status, ready, their_settings, streams, id, window_remaining, write_buf,
                   wire, inbox, callers, rx, rcvd, flags_seen,
                   delivered, admitted, placed>>

Next ==
    \/ ReadBranch
    \/ WriteBranch
    \/ RequestBranch
    \/ RequestClosed
    \/ \E c \in Callers : Submit(c)
    \/ \E c \in Callers : Recv(c)
    \/ DropConnection

Spec == Init /\ [][Next]_vars

\* The engine with callers that may drop their requests, and a peer that
\* only answers.
NextCancel ==
    \/ ReadAnswers
    \/ WriteBranch
    \/ RequestBranch
    \/ RequestClosed
    \/ \E c \in Callers : Submit(c)
    \/ \E c \in Callers : Recv(c)
    \/ \E c \in Callers : Cancel(c)
    \/ DropConnection

SpecCancel == Init /\ [][NextCancel]_vars

\* The engine with callers that send large bodies, and a peer that sends
\* nothing but its SETTINGS.
NextLarge ==
    \/ ReadOf(BatchesOf({PeerSettings}))
    \/ WriteBranch
    \/ RequestBranch
    \/ \E c \in Callers : SubmitLarge(c)

SpecLarge == Init /\ [][NextLarge]_vars

\* ------------------------------------------------------------ properties
\* Every frame the client has queued so far, in order (written or not).
Out == Tail(wire) \o write_buf

SeenOn(s) == IF s \in DOMAIN flags_seen THEN flags_seen[s] ELSE {}

\* The stream that carried request r (0 when r has not been admitted).
StreamOf(r) ==
    IF \E k \in 1..Len(admitted) : admitted[k].request = r
      THEN (CHOOSE k \in 1..Len(admitted) : admitted[k].request = r)
      ELSE 0

Index(seq, x) == CHOOSE i \in 1..Len(seq) : seq[i] = x

IsPrefix(a, b) == Len(a) <= Len(b) /\ a = SubSeq(b, 1, Len(a))

IsSettingsAck(f) == f.ty = "Settings" /\ ACK \in f.flags
IsPingAck(f) == f.ty = "Ping" /\ ACK \in f.flags
IsGoAway(f) == f.ty = "GoAway"
IsInitialSettings(f) ==
    f.ty = "Settings" /\ ACK \notin f.flags /\ f.payload = InitialSettings.payload

PingAckPayloads ==
    LET acks == SelectSeq(Out, IsPingAck)
    IN [i \in 1..Len(acks) |-> acks[i].payload]

\* C1: a Response is delivered on a stream only once END_STREAM has been
\* received on it and its response header block has been completed by
\* END_HEADERS.
C1_DeliveredOnlyWhenComplete ==
    \A i \in 1..Len(delivered) :
        {END_STREAM, END_HEADERS} \subseteq SeenOn(delivered[i].stream)

\* C2: a stream's sink is completed at most once, whatever frames follow the
\* delivery, and only with the request the stream was opened for.
C2_SinkCompletedAtMostOnce ==
    /\ \A i, j \in 1..Len(delivered) :
          delivered[i].stream = delivered[j].stream => i = j
    /\ \A i \in 1..Len(delivered) :
          \E k \in 1..Len(admitted) :
             /\ admitted[k].stream = delivered[i].stream
             /\ admitted[k].request = delivered[i].response.request_id

\* C2 witness: a response was delivered on a stream and a later DATA frame
\* with END_STREAM has since been added to that stream's body.
C2_Witness ==
    \E i \in 1..Len(delivered) :
        LET s == delivered[i].stream
        IN /\ streams[s].body_buffer # delivered[i].response.body
           /\ streams[s].body_buffer # <<>>
           /\ streams[s].body_buffer[Len(streams[s].body_buffer)] = 50 + s

\* C3: a caller's request() returns the response delivered on the stream that
\* carried its own request, with what was received on that stream.
C3_CallerGetsOwnResponse ==
    \A c \in Callers :
        callers[c].pc = "done" =>
            /\ \E k \in 1..Len(admitted) : admitted[k].request = c
            /\ LET s == admitted[Index([k \in 1..Len(admitted) |-> admitted[k].request], c)].stream
                   r == callers[c].result[1]
               IN /\ \E i \in 1..Len(delivered) :
                        delivered[i].stream = s /\ delivered[i].response = r
                  /\ IsPrefix(r.body, streams[s].body_buffer)
                  /\ \A i \in 1..Len(r.body) : r.body[i] \in {40 + s, 50 + s}

\* C3 witness: two callers have their responses, which completed in the
\* reverse of the order in which the requests were admitted.
C3_Witness ==
    /\ \A c \in Callers : callers[c].pc = "done"
    /\ Len(delivered) >= 2
    /\ delivered[1].stream > delivered[2].stream
    /\ delivered[1].response.body # delivered[2].response.body

\* C4: a caller whose stream has received a complete response or RST_STREAM,
\* or whose engine has ended, is not left waiting with nothing to receive.
C4_RequestResolves ==
    \A c \in Callers :
        LET k == StreamOf(c)
            seen == IF k = 0 THEN {} ELSE SeenOn(admitted[k].stream)
        IN (/\ callers[c].pc = "waiting"
            /\ \/ {END_STREAM, END_HEADERS} \subseteq seen
               \/ "RST" \in seen
               \/ status # "running")
           => rx[c] # <<>>

\* C5: the stream ids allocated for requests are odd, start at 3 and are
\* strictly increasing.
C5_AllocatedIdsOddFromThree ==
    \A k \in 1..Len(admitted) :
        /\ admitted[k].stream % 2 = 1
        /\ admitted[k].stream >= 3
        /\ \A j \in 1..(k - 1) : admitted[j].stream < admitted[k].stream

\* C6: requests leave the inbox in the order they were put on it, get
\* increasing stream ids in that order, and their HEADERS frames are queued
\* in that order.
C6_FifoAdmission ==
    /\ Len(admitted) <= Len(placed)
    /\ \A k \in 1..Len(admitted) : admitted[k].request = placed[k]
    /\ \A j, k \in 1..Len(admitted) :
          j < k =>
            /\ admitted[j].stream < admitted[k].stream
            /\ \E a, b \in 1..Len(Out) :
                  /\ a < b
                  /\ Out[a].ty = "Headers" /\ Out[a].stream = admitted[j].stream
                  /\ Out[b].ty = "Headers" /\ Out[b].stream = admitted[k].stream

\* C6 witness: two requests admitted, the first of them the one with the
\* larger request id.
C6_Witness ==
    /\ Len(admitted) = 2
    /\ admitted[1].request > admitted[2].request

\* C7: a request is taken from the inbox only after a SETTINGS frame has been
\* received, and every request HEADERS/DATA is queued behind a SETTINGS ACK.
C7_NoRequestBeforeHandshake ==
    /\ admitted # <<>> => rcvd.settings + rcvd.settings_ack > 0
    /\ \A i \in 1..Len(Out) :
          Out[i].ty \in {"Headers", "Data"} =>
            /\ rcvd.settings + rcvd.settings_ack > 0
            /\ \E j \in 1..(i - 1) : IsSettingsAck(Out[j])

\* C7 witness: the peer sent a PING before its SETTINGS, the echo is the first
\* frame queued, and a request has been admitted behind the SETTINGS ACK.
C7_Witness ==
    /\ admitted # <<>>
    /\ Out # <<>>
    /\ IsPingAck(Out[1])
    /\ \E i \in 1..Len(Out) :
          /\ Out[i].ty = "Headers"
          /\ \E j \in 1..(i - 1) : IsSettingsAck(Out[j])

\* C8: the initial SETTINGS frame follows the preface as the first frame the
\* client writes, and is written before any input is processed.
C8_InitialSettingsFirst ==
    /\ rcvd.frames > 0 => Len(wire) >= 2
    /\ Len(wire) >= 2 => IsInitialSettings(wire[2])

\* C9: the SETTINGS ACKs queued are as many as the SETTINGS frames without
\* ACK that have been received.
C9_OneAckPerNonAckSettings ==
    Len(SelectSeq(Out, IsSettingsAck)) = rcvd.settings

\* C10: the PING ACKs queued echo, in order, the payloads of the received
\* 8-octet PINGs without ACK, and nothing else; a PING with ACK queues no
\* frame (the only other PING output is the GOAWAY for a bad length).
C10_PingEchoedOnce ==
    /\ PingAckPayloads = rcvd.pings
    /\ \A i \in 1..Len(Out) : Out[i].ty = "Ping" => IsPingAck(Out[i])
    /\ Len(SelectSeq(Out, IsGoAway)) = rcvd.bad_pings

\* C10 witness: two PINGs without ACK, of different payloads, and a PING with
\* ACK have been received, and the two echoes are queued in order.
C10_Witness ==
    /\ Len(rcvd.pings) = 2
    /\ rcvd.pings[1] # rcvd.pings[2]
    /\ rcvd.ping_acks = 1
    /\ PingAckPayloads = rcvd.pings

\* The positions in Out of the HEADERS and DATA frames of stream s.
RequestFramesOn(s) ==
    {i \in 1..Len(Out) : Out[i].ty \in {"Headers", "Data"} /\ Out[i].stream = s}

\* C11: a request with an empty body queues one HEADERS frame with
\* END_STREAM|END_HEADERS on its stream; one with a body queues HEADERS with
\* END_HEADERS only and, right behind it, one DATA frame with END_STREAM that
\* carries the body on the same stream.
C11_RequestFrames ==
    \A k \in 1..Len(admitted) :
        LET s == admitted[k].stream
            body == callers[admitted[k].request].body
        IN IF body = <<>>
             THEN \E i \in 1..Len(Out) :
                     /\ RequestFramesOn(s) = {i}
                     /\ Out[i] = Frame("Headers", s, {END_STREAM, END_HEADERS}, RequestFragment)
             ELSE \E i \in 1..(Len(Out) - 1) :
                     /\ RequestFramesOn(s) = {i, i + 1}
                     /\ Out[i] = Frame("Headers", s, {END_HEADERS}, RequestFragment)
                     /\ Out[i + 1] = Frame("Data", s, {END_STREAM}, body)

\* C11 witness: one request of each kind has been admitted, the one with the
\* body first, and received frames have queued output since.
C11_Witness ==
    /\ Len(admitted) = 2
    /\ callers[admitted[1].request].body # <<>>
    /\ callers[admitted[2].request].body = <<>>
    /\ Out[Len(Out)].ty \notin {"Headers", "Data"}

IsProtocolErrorGoAway(f) == f.ty = "GoAway" /\ f.payload = ErrorType.ProtocolError

\* C12: once a frame other than the CONTINUATION of the open header block
\* has been received while a block was open, a GOAWAY with PROTOCOL_ERROR has
\* been queued.
C12_ContinuationLock ==
    rcvd.interleaved > 0 => \E i \in 1..Len(Out) : IsProtocolErrorGoAway(Out[i])

GoAwayQueued == \E i \in 1..Len(Out) : IsGoAway(Out[i])

\* C13: once the engine has queued a GOAWAY it dispatches no further
\* received frame and admits no further request, and no caller is left
\* waiting with nothing to receive.
C13_GoAwayThenClose ==
    [][GoAwayQueued =>
          /\ rcvd'.frames = rcvd.frames
          /\ admitted' = admitted
          /\ \A c \in Callers : callers'[c].pc = "waiting" => rx'[c] # <<>>]_vars

\* C14: an error raised by the handler of one stream does not end the
\* engine task.
C14_StreamErrorIsolated ==
    status # "panicked"

\* C15: after a GOAWAY frame has been received no request is taken from the
\* inbox and given a stream.
C15_NoNewStreamAfterGoAway ==
    [][rcvd.goaways > 0 => admitted' = admitted]_vars

\* The responses sent for the request of caller c.
DeliveredFor(c) ==
    {delivered[i].response : i \in {j \in 1..Len(delivered) :
                                       delivered[j].response.request_id = callers[c].id}}

\* C16: when callers drop their requests and the responses complete later,
\* the engine task does not end, it queues neither RST_STREAM nor GOAWAY,
\* the dropped caller receives nothing, and every other caller whose
\* response was sent has it, returned or waiting in its receiver.
C16_DroppedAwaiterBenign ==
    /\ status # "panicked"
    /\ \A i \in 1..Len(Out) : Out[i].ty \notin {"ResetStream", "GoAway"}
    /\ \A c \in Callers :
          /\ callers[c].pc \in {"dropped", "abandoned"} =>
                rx[c] = <<>> /\ callers[c].result = <<>>
          /\ callers[c].pc \in {"waiting", "done"} =>
                \A r \in DeliveredFor(c) :
                    \/ callers[c].pc = "done" /\ callers[c].result = <<r>>
                    \/ \E i \in 1..Len(rx[c]) : rx[c][i] = r

\* C16 witness: a caller dropped its request before the response was
\* complete, the response has been sent since, and the other caller, whose
\* response came after it, has returned.
C16_Witness ==
    \E c, d \in Callers :
        /\ callers[c].pc = "dropped"
        /\ callers[d].pc = "done"
        /\ status = "running"
        /\ \E i, j \in 1..Len(delivered) :
              /\ i < j
              /\ delivered[i].response.request_id = callers[c].id
              /\ delivered[j].response.request_id = callers[d].id

IsWindowUpdate(f) == f.ty = "WindowUpdate"
NonEmptyData(d) == d.length # 0

\* C17: the WINDOW_UPDATE frames queued are, in order, two for each received
\* DATA frame of non-zero length L, the first on the frame's stream and the
\* second on stream 0, both with increment L; none has increment 0.
C17_WindowUpdatePerData ==
    LET sent == SelectSeq(Out, IsWindowUpdate)
        data == SelectSeq(rcvd.data, NonEmptyData)
    IN /\ Len(sent) = 2 * Len(data)
       /\ \A k \in 1..Len(data) :
             /\ sent[2 * k - 1] = Frame("WindowUpdate", data[k].stream, {}, data[k].length)
             /\ sent[2 * k] = Frame("WindowUpdate", 0, {}, data[k].length)
       /\ \A i \in 1..Len(sent) : sent[i].payload > 0

\* C17 witness: DATA frames of length 0 and of length 1 have been received
\* on one stream, the empty one first.
C17_Witness ==
    /\ Len(rcvd.data) >= 2
    /\ rcvd.data[1].length = 0
    /\ rcvd.data[2].length > 0
    /\ rcvd.data[1].stream = rcvd.data[2].stream
    /\ Len(SelectSeq(Out, IsWindowUpdate)) = 2

\* The octets of DATA in a sequence of frames.
RECURSIVE DataOctets(_)
DataOctets(frames) ==
    IF frames = <<>> THEN 0
    ELSE (IF frames[1].ty = "Data" THEN Len(frames[1].payload) ELSE 0)
         + DataOctets(Tail(frames))

\* C18: a DATA frame is queued only if its length is within the send window
\* of its stream (a new stream's window is the peer's InitialWindowSize) and
\* within the connection's window less the DATA already sent.
C18_DataWithinSendWindow ==
    [][\A i \in (Len(Out) + 1)..Len(Out') :
          Out'[i].ty = "Data" =>
             /\ Len(Out'[i].payload) <= their_settings["InitialWindowSize"]
             /\ Len(Out'[i].payload) <= window_remaining - DataOctets(Out)]_vars

\* The length field of a frame: the number of octets of its payload.
FrameLength(f) ==
    CASE f.ty \in {"Data", "Headers", "Continuation", "Ping"} -> Len(f.payload)
      [] f.ty = "Settings" -> (2 + 4) * Len(f.payload)
      [] f.ty = "GoAway" -> 4 + 4
      [] f.ty \in {"WindowUpdate", "ResetStream"} -> 4
      [] OTHER -> 0

\* C19: every frame the client queues has a length no larger than the
\* peer's MaxFrameSize setting, whatever the size of the request body.
C19_FrameWithinMaxFrameSize ==
    [][\A i \in (Len(Out) + 1)..Len(Out') :
          FrameLength(Out'[i]) <= their_settings'["MaxFrameSize"]]_vars

IsRefusal(f) == f.ty = "ResetStream" /\ f.payload = ErrorType.RefusedStream

\* The header field a PUSH_PROMISE block of the peer carries (static-table
\* entry 9); no HEADERS or CONTINUATION frame of the peer carries it.
PromisedField == STATIC_TABLE[9]

HasField(headers, field) ==
    /\ field[1] \in DOMAIN headers
    /\ \E i \in 1..Len(headers[field[1]]) : headers[field[1]][i] = field[2]

\* C20: once a PUSH_PROMISE has been received an RST_STREAM with code
\* RefusedStream is queued, and no delivered Response has a header field
\* that a PUSH_PROMISE block carried.
C20_PushRefused ==
    /\ (\E s \in DOMAIN flags_seen : "PP" \in flags_seen[s])
          => \E i \in 1..Len(Out) : IsRefusal(Out[i])
    /\ \A i \in 1..Len(delivered) :
          ~HasField(delivered[i].response.headers, PromisedField)

\* ------------------------------------------------------------ frame codec
\* Frame::write_into and Frame::read_from on octets. A frame is a record
\* with its variant in `ty` and the variant's fields.
FrameTypeCode ==
    [Data |-> 0, Headers |-> 1, Priority |-> 2, ResetStream |-> 3, Settings |-> 4,
     PushPromise |-> 5, Ping |-> 6, GoAway |-> 7, WindowUpdate |-> 8, Continuation |-> 9]

SettingsCode ==
    [HeaderTableSize |-> 1, EnablePush |-> 2, MaxConcurrentStreams |-> 3,
     InitialWindowSize |-> 4, MaxFrameSize |-> 5, MaxHeaderListSize |-> 6]

\* The bits of the flags each frame type knows (bitflags!).
FlagBits(ty) ==
    CASE ty = "Data" -> [END_STREAM |-> 1, PADDED |-> 8]
      [] ty = "Headers" -> [END_STREAM |-> 1, END_HEADERS |-> 4, PADDED |-> 8, PRIORITY |-> 32]
      [] ty = "Settings" -> [ACK |-> 1]
      [] ty = "PushPromise" -> [END_HEADERS |-> 4, PADDED |-> 8]
      [] ty = "Ping" -> [ACK |-> 1]
      [] ty = "Continuation" -> [END_HEADERS |-> 4]
      [] OTHER -> <<>>

RECURSIVE SumOver(_, _)
SumOver(f, S) ==
    IF S = {} THEN 0
    ELSE LET x == CHOOSE y \in S : TRUE IN f[x] + SumOver(f, S \ {x})

\* Frame::flags: flags.bits(), 0 for the types without flags.
frame_flags(f) ==
    IF DOMAIN FlagBits(f.ty) = {} THEN 0 ELSE SumOver(FlagBits(f.ty), f.flags)

\* from_bits_truncate: the known flags whose bit is set in octet b.
from_bits_truncate(ty, b) ==
    {n \in DOMAIN FlagBits(ty) : (b \div FlagBits(ty)[n]) % 2 = 1}

\* Frame::stream
frame_stream(f) == IF f.ty \in {"Settings", "Ping", "GoAway"} THEN 0 ELSE f.stream

\* u32::to_be_bytes, and u16::to_be_bytes
BE32(n) == <<n \div 16777216, (n \div 65536) % 256, (n \div 256) % 256, n % 256>>
BE16(n) == <<n \div 256, n % 256>>

\* u32::from_be_bytes(..) & (u32::MAX >> 1)
FromBE31(b) == (b[1] % 128) * 16777216 + b[2] * 65536 + b[3] * 256 + b[4]

\* u32::from_be_bytes of a value below 2^31, and u16::from_be_bytes
FromBE32(b) == b[1] * 16777216 + b[2] * 65536 + b[3] * 256 + b[4]
FromBE16(b) == b[1] * 256 + b[2]

\* b & 0b10000u8
And16(b) == ((b \div 16) % 2) * 16

\* payload[0] &= 0b10000u8 when the dependency is exclusive
PriorityOctets(dependency, exclusive_dependency, weight) ==
    LET d == BE32(dependency)
    IN (IF exclusive_dependency THEN <<And16(d[1]), d[2], d[3], d[4]>> ELSE d)
       \o <<weight>>

RECURSIVE SettingsOctets(_)
SettingsOctets(params) ==
    IF params = <<>> THEN <<>>
    ELSE BE16(SettingsCode[params[1][1]]) \o BE32(params[1][2])
         \o SettingsOctets(Tail(params))

\* Frame::into_payload
into_payload(f) ==
    CASE f.ty = "Data" -> f.data
      [] f.ty = "Headers" ->
             IF "PRIORITY" \in f.flags
               THEN PriorityOctets(f.dependency, f.exclusive_dependency, f.weight)
                    \o f.fragment
               ELSE f.fragment
      [] f.ty = "Priority" ->
             PriorityOctets(f.dependency, f.exclusive_dependency, f.weight)
      [] f.ty = "ResetStream" -> BE32(f.error)
      [] f.ty = "Settings" -> SettingsOctets(f.params)
      [] f.ty = "PushPromise" -> BE32(f.promised_stream) \o f.fragment
      [] f.ty = "Ping" -> f.data
      [] f.ty = "GoAway" -> BE32(f.last_stream) \o BE32(f.error) \o f.debug
      [] f.ty = "WindowUpdate" -> BE32(f.increment)
      [] f.ty = "Continuation" -> f.fragment

\* payload.len().to_be_bytes()[1..]: all but the first octet of a usize of
\* `width` octets (a length below 2^24).
LengthOctets(n, width) ==
    [i \in 1..(width - 1) |->
        IF i = width - 1 THEN n % 256
        ELSE IF i = width - 2 THEN (n \div 256) % 256
        ELSE IF i = width - 3 THEN (n \div 65536) % 256
        ELSE 0]

\* Frame::write_into: the octets written.
write_into(f, width) ==
    LengthOctets(Len(into_payload(f)), width)
    \o <<FrameTypeCode[f.ty], frame_flags(f)>>
    \o BE32(frame_stream(f))
    \o into_payload(f)

\* remove_padding
remove_padding(data) == SubSeq(data, 2, Len(data) - data[1])

Rest(seq, from) == SubSeq(seq, from, Len(seq))

RECURSIVE ReadSettings(_)
ReadSettings(payload) ==
    IF payload = <<>> THEN <<>>
    ELSE LET key == FromBE16(SubSeq(payload, 1, 2))
             names == {n \in DOMAIN SettingsCode : SettingsCode[n] = key}
         IN (IF names = {} THEN <<>>
             ELSE <<<<CHOOSE n \in names : TRUE, FromBE32(SubSeq(payload, 3, 6))>>>>)
            \o ReadSettings(Rest(payload, 7))

DecodeError(e) == [ty |-> "Err", error |-> e]

\* A slice such as payload[0..=3] of a payload that is too short panics.
SlicePanic == [ty |-> "Panic"]

\* Frame::read_from of a frame type, flags octet, stream id and payload.
ReadPayload(ty, flags, stream, payload) ==
    CASE ty = "Data" ->
             IF stream = 0 THEN DecodeError("ZeroStreamId")
             ELSE [ty |-> ty, stream |-> stream, flags |-> from_bits_truncate(ty, flags),
                   data |-> IF "PADDED" \in from_bits_truncate(ty, flags)
                              THEN remove_padding(payload) ELSE payload]
      [] ty = "Headers" ->
             LET fl == from_bits_truncate(ty, flags)
                 p == IF "PADDED" \in fl THEN remove_padding(payload) ELSE payload
             IN IF stream = 0 THEN DecodeError("ZeroStreamId")
                ELSE IF "PRIORITY" \in fl
                  THEN (IF Len(p) < 5 THEN SlicePanic
                        ELSE [ty |-> ty, stream |-> stream, flags |-> fl,
                              dependency |-> FromBE31(SubSeq(p, 1, 4)),
                              exclusive_dependency |-> And16(p[1]) # 0,
                              weight |-> p[5],
                              fragment |-> Rest(p, 6)])
                  ELSE [ty |-> ty, stream |-> stream, flags |-> fl,
                        dependency |-> 0, exclusive_dependency |-> FALSE, weight |-> 0,
                        fragment |-> p]
      [] ty = "Priority" ->
             IF stream = 0 THEN DecodeError("ZeroStreamId")
             ELSE IF Len(payload) < 5 THEN SlicePanic
             ELSE [ty |-> ty, stream |-> stream,
                   dependency |-> FromBE31(SubSeq(payload, 1, 4)),
                   exclusive_dependency |-> And16(payload[1]) # 0,
                   weight |-> payload[5]]
      [] ty = "ResetStream" ->
             IF Len(payload) < 4 THEN SlicePanic
             ELSE IF stream = 0 THEN DecodeError("ZeroStreamId")
             ELSE [ty |-> ty, stream |-> stream, error |-> FromBE32(SubSeq(payload, 1, 4))]
      [] ty = "Settings" ->
             IF Len(payload) % 6 # 0 THEN SlicePanic
             ELSE [ty |-> ty, flags |-> from_bits_truncate(ty, flags),
                   params |-> ReadSettings(payload)]
      [] ty = "PushPromise" ->
             LET fl == from_bits_truncate(ty, flags)
             IN IF stream = 0 THEN DecodeError("ZeroStreamId")
                ELSE IF Len(payload) < 4 THEN SlicePanic
                ELSE [ty |-> ty, stream |-> stream, flags |-> fl,
                      promised_stream |-> FromBE31(SubSeq(payload, 1, 4)),
                      fragment |-> Rest(IF "PADDED" \in fl
                                          THEN remove_padding(payload) ELSE payload, 5)]
      [] ty = "Ping" ->
             [ty |-> ty, flags |-> from_bits_truncate(ty, flags), data |-> payload]
      [] ty = "GoAway" ->
             IF Len(payload) < 8 THEN SlicePanic
             ELSE [ty |-> ty, last_stream |-> FromBE31(SubSeq(payload, 1, 4)),
                   error |-> FromBE32(SubSeq(payload, 5, 8)),
                   debug |-> Rest(payload, 9)]
      [] ty = "WindowUpdate" ->
             IF Len(payload) < 4 THEN SlicePanic
             ELSE IF FromBE31(SubSeq(payload, 1, 4)) = 0
               THEN DecodeError("ZeroWindowIncrement")
             ELSE [ty |-> ty, stream |-> stream,
                   increment |-> FromBE31(SubSeq(payload, 1, 4))]
      [] ty = "Continuation" ->
             IF stream = 0 THEN DecodeError("ZeroStreamId")
             ELSE [ty |-> ty, stream |-> stream, flags |-> from_bits_truncate(ty, flags),
                   fragment |-> payload]

\* Frame::read_from: the frame at the head of the octets, or the error; the
\* read of a payload longer than what follows never returns ("Blocked").
read_from(octets) ==
    IF Len(octets) < 9 THEN [ty |-> "None"]
    ELSE LET length == octets[1] * 65536 + octets[2] * 256 + octets[3]
             types == {t \in DOMAIN FrameTypeCode : FrameTypeCode[t] = octets[4]}
         IN IF Len(octets) < 9 + length THEN [ty |-> "Blocked"]
            ELSE IF types = {} THEN DecodeError("UnknownType")
            ELSE ReadPayload(CHOOSE t \in types : TRUE, octets[5],
                             FromBE31(SubSeq(octets, 6, 9)),
                             SubSeq(octets, 10, 9 + length))

\* The frames written: every type, both values of the exclusive bit, a
\* dependency with and without the bit 0b10000 in its first octet.
Dependencies == {0, 3, 268435456}
Weights == {0, 255}

CodecFrames ==
    {[ty |-> "Data", stream |-> 1, flags |-> fl, data |-> d] :
        fl \in SUBSET {"END_STREAM"}, d \in {<<>>, <<7, 8>>}}
    \cup {[ty |-> "Headers", stream |-> 1, flags |-> fl \cup {"PRIORITY"},
           dependency |-> d, exclusive_dependency |-> e, weight |-> w,
           fragment |-> <<136>>] :
        fl \in SUBSET {"END_HEADERS"}, d \in Dependencies, e \in BOOLEAN, w \in Weights}
    \cup {[ty |-> "Headers", stream |-> 1, flags |-> fl,
           dependency |-> 0, exclusive_dependency |-> FALSE, weight |-> 0,
           fragment |-> <<136>>] :
        fl \in SUBSET {"END_STREAM", "END_HEADERS"}}
    \cup {[ty |-> "Priority", stream |-> 1,
           dependency |-> d, exclusive_dependency |-> e, weight |-> w] :
        d \in Dependencies, e \in BOOLEAN, w \in Weights}
    \cup {[ty |-> "ResetStream", stream |-> 1, error |-> ErrorType.Cancel]}
    \cup {[ty |-> "Settings", flags |-> {}, params |-> InitialSettings.payload],
          [ty |-> "Settings", flags |-> {"ACK"}, params |-> <<>>]}
    \cup {[ty |-> "PushPromise", stream |-> 1, flags |-> {"END_HEADERS"},
           promised_stream |-> 2, fragment |-> <<137>>]}
    \cup {[ty |-> "Ping", flags |-> fl, data |-> <<1, 2, 3, 4, 5, 6, 7, 8>>] :
        fl \in SUBSET {"ACK"}}
    \cup {[ty |-> "GoAway", last_stream |-> 0, error |-> ErrorType.ProtocolError,
           debug |-> <<>>]}
    \cup {[ty |-> "WindowUpdate", stream |-> st, increment |-> 1] : st \in {0, 1}}
    \cup {[ty |-> "Continuation", stream |-> 1, flags |-> fl, fragment |-> <<144>>] :
        fl \in SUBSET {"END_HEADERS"}}

\* size_of::<usize>() on the targets the crate builds for.
UsizeWidths == {4, 8}

\* A frame codec on its own: the target is chosen, then frames are written
\* and what was written is read back.
InitCodec ==
    /\ EngineInit
    /\ \E w \in UsizeWidths : call = [op |-> "new", usize |-> w]

WriteFrame ==
    /\ call.op \in {"new", "read_from"}
    /\ \E f \in CodecFrames :
          call' = [op |-> "write_into", usize |-> call.usize, frame |-> f,
                   octets |-> write_into(f, call.usize)]
    /\ UNCHANGED engine

ReadFrame ==
    /\ call.op = "write_into"
    /\ call' = [op |-> "read_from", usize |-> call.usize, frame |-> call.frame,
                octets |-> call.octets, read |-> read_from(call.octets)]
    /\ UNCHANGED engine

SpecCodec == InitCodec /\ [][WriteFrame \/ ReadFrame]_vars

\* C21: a frame that is written and read back is the same frame, with the
\* exclusive bit, the dependency and the weight of PRIORITY and of HEADERS
\* with PRIORITY intact; what is written is a header of 9 octets (24-bit
\* length of the payload, type, flags, stream id) and the payload.
C21_FrameRoundTrip ==
    call.op = "read_from" =>
        /\ call.read = call.frame
        /\ Len(call.octets) = 9 + Len(into_payload(call.frame))
        /\ SubSeq(call.octets, 1, 3) = Rest(BE32(Len(into_payload(call.frame))), 2)

\* ------------------------------------------------------------ HPACK codec
\* Table::new of the crate's Encoder and Decoder (with_size(4096)).
NewTable == [max_size |-> 4096, current_size |-> 0, table |-> <<>>]

\* Encoder::encode: the octets of the block, and the encoder afterwards.
Encoder_encode(encoder, headers) == [octets |-> <<>>, encoder |-> encoder]

\* Decoder::decode: the header fields of the block, and the decoder afterwards.
Decoder_decode(decoder, data) == [headers |-> <<>>, decoder |-> decoder]

\* The conforming codec the crate's tests pair with its own (their_hpack).
\* A block is a sequence of representations: an indexed field, or a literal
\* with incremental indexing; the dynamic table has its newest entry first
\* and is numbered after the static table's entries.
StaticLen == 61

StaticIndex(field) ==
    IF \E i \in DOMAIN STATIC_TABLE : STATIC_TABLE[i] = field
      THEN CHOOSE i \in DOMAIN STATIC_TABLE : STATIC_TABLE[i] = field
      ELSE 0

DynamicIndex(table, field) ==
    IF \E k \in 1..Len(table) : table[k] = field
      THEN StaticLen + (CHOOSE k \in 1..Len(table) : table[k] = field)
      ELSE 0

RECURSIVE their_encode(_, _)
their_encode(table, headers) ==
    IF headers = <<>> THEN [octets |-> <<>>, table |-> table]
    ELSE LET field == headers[1]
             index == IF StaticIndex(field) # 0 THEN StaticIndex(field)
                      ELSE DynamicIndex(table, field)
             rest == their_encode(IF index # 0 THEN table ELSE <<field>> \o table,
                                  Tail(headers))
         IN [octets |-> <<IF index # 0 THEN [rep |-> "indexed", index |-> index]
                          ELSE [rep |-> "literal", name |-> field[1], value |-> field[2]]>>
                        \o rest.octets,
             table |-> rest.table]

RECURSIVE their_decode(_, _)
their_decode(table, octets) ==
    IF octets = <<>> THEN [headers |-> <<>>, table |-> table]
    ELSE LET r == octets[1]
             field == IF r.rep = "literal" THEN <<r.name, r.value>>
                      ELSE IF r.index <= StaticLen THEN STATIC_TABLE[r.index]
                      ELSE table[r.index - StaticLen]
             rest == their_decode(IF r.rep = "literal" THEN <<field>> \o table ELSE table,
                                  Tail(octets))
         IN [headers |-> <<field>> \o rest.headers, table |-> rest.table]

\* The header lists encoded: up to MaxFields fields, two of the static
\* table and one that is not.
MaxFields == 2
MaxBlocks == 3

HeaderFields == {STATIC_TABLE[8], STATIC_TABLE[16], <<"x-request", "1">>}

HeaderLists == UNION {[1..n -> HeaderFields] : n \in 0..MaxFields}

\* The two pairings of the crate's tests, block after block on the same
\* codecs: the crate's encoder with the conforming decoder (tests::encode),
\* the conforming encoder with the crate's decoder (tests::decode).
InitHpack ==
    /\ EngineInit
    /\ call = [op |-> "new", blocks |-> 0,
               encoder |-> NewTable, their_decoder |-> <<>>,
               their_encoder |-> <<>>, decoder |-> NewTable]

EncodeBlock ==
    /\ call.op \in {"new", "encode", "decode"}
    /\ call.blocks < MaxBlocks
    /\ \E headers \in HeaderLists :
          \E e \in {Encoder_encode(call.encoder, headers)} :
             \E d \in {their_decode(call.their_decoder, e.octets)} :
                call' = [op |-> "encode", blocks |-> call.blocks + 1,
                         encoder |-> e.encoder, their_decoder |-> d.table,
                         their_encoder |-> call.their_encoder, decoder |-> call.decoder,
                         headers |-> headers, octets |-> e.octets, decoded |-> d.headers]
    /\ UNCHANGED engine

DecodeBlock ==
    /\ call.op \in {"new", "encode", "decode"}
    /\ call.blocks < MaxBlocks
    /\ \E headers \in HeaderLists :
          \E e \in {their_encode(call.their_encoder, headers)} :
             \E d \in {Decoder_decode(call.decoder, e.octets)} :
                call' = [op |-> "decode", blocks |-> call.blocks + 1,
                         encoder |-> call.encoder, their_decoder |-> call.their_decoder,
                         their_encoder |-> e.table, decoder |-> d.decoder,
                         headers |-> headers, octets |-> e.octets, decoded |-> d.headers]
    /\ UNCHANGED engine

SpecHpack == InitHpack /\ [][EncodeBlock \/ DecodeBlock]_vars

\* C22: what the conforming decoder makes of the crate's encoding of a
\* header list, and what the crate's decoder makes of the conforming
\* encoding of it, is the list itself, block after block.
C22_HpackRoundTrip ==
    call.op \in {"encode", "decode"} => call.decoded = call.headers

\* ------------------------------------------------------- a stream alone
\* One Stream under frames received (Stream::handle_frame) and frames sent
\* (Stream::transition_state with recv = false), MaxEvents of them.
MaxEvents == 4

\* The frames received on the stream: those of the engine's peer, and a
\* PUSH_PROMISE that completes its block, PRIORITY and WINDOW_UPDATE.
ReceivedFrames ==
    StreamFrames(1)
    \cup {Frame("PushPromise", 1, {END_HEADERS}, <<137>>),
          Frame("Priority", 1, {}, 3),
          Frame("WindowUpdate", 1, {}, 1)}

\* The frames sent on the stream, by type and flags.
SentFrames ==
    {Frame("Headers", 1, fl, <<>>) : fl \in SUBSET {END_STREAM, END_HEADERS}}
    \cup {Frame("PushPromise", 1, fl, <<>>) : fl \in SUBSET {END_HEADERS}}
    \cup {Frame("Continuation", 1, fl, <<>>) : fl \in SUBSET {END_HEADERS}}
    \cup {Frame("Data", 1, fl, <<>>) : fl \in SUBSET {END_STREAM}}
    \cup {Frame("ResetStream", 1, {}, ErrorType.Cancel)}

NoBlock == [opener |-> "None", flags |-> {}, start |-> NewStream(1),
            fragments |-> <<>>, open |-> FALSE, clean |-> FALSE]

\* The header block as the frames received delimit it: HEADERS or
\* PUSH_PROMISE opens one (`start` is the stream it arrived on), the
\* CONTINUATION frames that follow add their fragments, END_HEADERS ends it;
\* `clean` tells that no other frame came in between.
BlockAfter(block, stream, frame) ==
    CASE frame.ty \in {"Headers", "PushPromise"} ->
             [opener |-> frame.ty, flags |-> frame.flags, start |-> stream,
              fragments |-> frame.payload, open |-> END_HEADERS \notin frame.flags,
              clean |-> TRUE]
      [] frame.ty = "Continuation" ->
             IF block.open
               THEN [block EXCEPT !.fragments = @ \o frame.payload,
                                  !.open = END_HEADERS \notin frame.flags]
               ELSE NoBlock
      [] OTHER -> IF block.open THEN [block EXCEPT !.clean = FALSE] ELSE block

InitStream ==
    /\ EngineInit
    /\ \E sink \in {None, 1} :
          call = [op |-> "new", events |-> 0,
                  stream |-> [NewStream(1) EXCEPT !.response_tx = sink],
                  block |-> NoBlock]

\* A frame is received: Stream::handle_frame.
StreamReceives ==
    /\ call.op \in {"new", "handle_frame", "transition_state"}
    /\ call.events < MaxEvents
    /\ \E frame \in ReceivedFrames :
          \E r \in {handle_frame(call.stream, frame)} :
             call' = [op |-> "handle_frame", events |-> call.events + 1,
                      recv |-> TRUE, frame |-> frame, before |-> call.stream,
                      ok |-> r.ok, stream |-> r.stream, resp |-> r.resp,
                      block |-> BlockAfter(call.block, call.stream, frame)]
    /\ UNCHANGED engine

\* A frame is sent: Stream::transition_state(false, ..), which leaves the
\* stream as it is when it returns an error.
StreamSends ==
    /\ call.op \in {"new", "handle_frame", "transition_state"}
    /\ call.events < MaxEvents
    /\ \E frame \in SentFrames :
          \E next \in {transition_state(call.stream, FALSE, frame.ty, frame.flags)} :
             call' = [op |-> "transition_state", events |-> call.events + 1,
                      recv |-> FALSE, frame |-> frame, before |-> call.stream,
                      ok |-> next # "Err",
                      stream |-> IF next = "Err" THEN call.stream
                                 ELSE [call.stream EXCEPT !.state = next],
                      resp |-> <<>>,
                      block |-> IF call.block.open
                                  THEN [call.block EXCEPT !.clean = FALSE]
                                  ELSE call.block]
    /\ UNCHANGED engine

SpecStream == InitStream /\ [][StreamReceives \/ StreamSends]_vars

\* A frame has just been sent or received on the stream.
Stepped == call.op \in {"handle_frame", "transition_state"}

\* The frame completes a block of HEADERS, or of PUSH_PROMISE: it carries
\* END_HEADERS and is that frame, or a CONTINUATION while that kind of
\* block is pending on the stream.
CompletesHeaders ==
    /\ END_HEADERS \in call.frame.flags
    /\ \/ call.frame.ty = "Headers"
       \/ call.frame.ty = "Continuation" /\ call.before.continuing = "Headers"

CompletesPushPromise ==
    /\ END_HEADERS \in call.frame.flags
    /\ \/ call.frame.ty = "PushPromise"
       \/ call.frame.ty = "Continuation" /\ call.before.continuing = "PushPromise"

\* C23: for a frame without END_STREAM, the Idle and Reserved rows of the
\* state table: a completing HEADERS opens an Idle stream, a completing
\* PUSH_PROMISE reserves it (local when sent, remote when received), a
\* completing HEADERS sent on ReservedLocal gives HalfClosedRemote and one
\* received on ReservedRemote gives HalfClosedLocal; a header frame without
\* END_HEADERS changes no state.
C23_IdleAndReservedRows ==
    (Stepped /\ call.ok /\ END_STREAM \notin call.frame.flags) =>
        LET b == call.before.state
            a == call.stream.state
        IN /\ (b = "Idle" /\ CompletesHeaders) => a = "Open"
           /\ (b = "Idle" /\ CompletesPushPromise /\ ~call.recv) => a = "ReservedLocal"
           /\ (b = "Idle" /\ CompletesPushPromise /\ call.recv) => a = "ReservedRemote"
           /\ (b = "ReservedLocal" /\ CompletesHeaders /\ ~call.recv)
                 => a = "HalfClosedRemote"
           /\ (b = "ReservedRemote" /\ CompletesHeaders /\ call.recv)
                 => a = "HalfClosedLocal"
           /\ (call.frame.ty \in {"Headers", "PushPromise", "Continuation"}
               /\ END_HEADERS \notin call.frame.flags) => a = b

\* C23 witness: a CONTINUATION with END_HEADERS, received while a HEADERS
\* block is pending on a ReservedRemote stream, has made it HalfClosedLocal.
C23_Witness ==
    /\ Stepped /\ call.ok /\ call.recv
    /\ call.frame.ty = "Continuation"
    /\ call.before.state = "ReservedRemote"
    /\ call.before.continuing = "Headers"
    /\ call.stream.state = "HalfClosedLocal"

\* The frame carries END_STREAM (DATA or HEADERS).
EndsStream == call.frame.ty \in {"Data", "Headers"} /\ END_STREAM \in call.frame.flags

\* C24: the END_STREAM rows of the state table: sent on Open gives
\* HalfClosedLocal, received on Open gives HalfClosedRemote, received on
\* HalfClosedLocal and sent on HalfClosedRemote give Closed; no frame but
\* RST_STREAM takes Open to Closed, and END_STREAM in the direction already
\* closed changes nothing.
C24_EndStreamRows ==
    (Stepped /\ call.ok) =>
        LET b == call.before.state
            a == call.stream.state
        IN /\ (EndsStream /\ b = "Open" /\ ~call.recv) => a = "HalfClosedLocal"
           /\ (EndsStream /\ b = "Open" /\ call.recv) => a = "HalfClosedRemote"
           /\ (EndsStream /\ b = "HalfClosedLocal" /\ call.recv) => a = "Closed"
           /\ (EndsStream /\ b = "HalfClosedRemote" /\ ~call.recv) => a = "Closed"
           /\ (b = "Open" /\ call.frame.ty # "ResetStream") => a # "Closed"
           /\ (EndsStream /\ b = "HalfClosedLocal" /\ ~call.recv) => a = b
           /\ (EndsStream /\ b = "HalfClosedRemote" /\ call.recv) => a = b

\* C24 witness: END_STREAM has been sent on a stream that was
\* HalfClosedLocal already, and the stream is HalfClosedLocal still.
C24_Witness ==
    /\ Stepped /\ call.ok /\ ~call.recv /\ EndsStream
    /\ call.before.state = "HalfClosedLocal"
    /\ call.stream.state = "HalfClosedLocal"

\* C25: RST_STREAM, sent or received, closes a stream that is not Idle; on
\* an Idle stream it is an error that leaves the stream as it was.
C25_ResetStream ==
    (Stepped /\ call.frame.ty = "ResetStream") =>
        IF call.before.state = "Idle"
          THEN ~call.ok /\ call.stream = call.before
          ELSE call.ok /\ call.stream.state = "Closed"

\* C25 witness: RST_STREAM has been received on an Idle stream that has a
\* sink and a buffered header fragment.
C25_Witness ==
    /\ Stepped /\ call.recv /\ call.frame.ty = "ResetStream"
    /\ call.before.state = "Idle"
    /\ call.before.response_tx # None
    /\ call.before.headers_buffer # <<>>

\* C26: a DATA, HEADERS, PUSH_PROMISE or CONTINUATION frame received on a
\* Closed stream is an error, and its payload goes to neither buffer.
C26_ClosedStreamRejects ==
    (Stepped /\ call.recv /\ call.before.state = "Closed"
     /\ call.frame.ty \in {"Data", "Headers", "PushPromise", "Continuation"}) =>
        /\ ~call.ok
        /\ call.stream.body_buffer = call.before.body_buffer
        /\ call.stream.headers_buffer = call.before.headers_buffer

\* The order of the states: Idle, Reserved*, Open, HalfClosed*, Closed.
Rank(state) ==
    CASE state = "Idle" -> 0
      [] state \in {"ReservedLocal", "ReservedRemote"} -> 1
      [] state = "Open" -> 2
      [] state \in {"HalfClosedLocal", "HalfClosedRemote"} -> 3
      [] state = "Closed" -> 4

\* C27: a frame sent or received leaves the stream's state or moves it
\* forward in the order of the states; nothing leaves Closed.
C27_StateMonotone ==
    Stepped =>
        /\ call.stream.state # call.before.state
              => Rank(call.stream.state) > Rank(call.before.state)
        /\ call.before.state = "Closed" => call.stream.state = "Closed"

\* C27 witness: a completing HEADERS has been received on a stream that is
\* HalfClosedRemote.
C27_Witness ==
    /\ Stepped /\ call.recv /\ CompletesHeaders
    /\ call.before.state = "HalfClosedRemote"

\* C28: when a block that HEADERS with END_STREAM and without END_HEADERS
\* opened has been completed by CONTINUATION frames, nothing else in
\* between, the stream is in the state that one HEADERS frame with
\* END_STREAM and END_HEADERS would have put it in.
C28_EndStreamSurvivesContinuation ==
    (Stepped /\ call.recv /\ call.ok
     /\ call.frame.ty = "Continuation" /\ END_HEADERS \in call.frame.flags
     /\ call.block.opener = "Headers" /\ END_STREAM \in call.block.flags
     /\ call.block.clean /\ ~call.block.open
     /\ call.block.start.state \in {"Idle", "ReservedRemote", "Open", "HalfClosedLocal"}) =>
        call.stream.state =
            handle_frame(call.block.start,
                         Frame("Headers", 1, {END_STREAM, END_HEADERS},
                               call.block.fragments)).stream.state

\* C29: a CONTINUATION received while no header block is pending on the
\* stream is an error: its fragment is not buffered, nothing is decoded and
\* no response is delivered.
C29_ContinuationNeedsBlock ==
    (Stepped /\ call.recv /\ call.frame.ty = "Continuation"
     /\ call.before.continuing = "None") =>
        /\ ~call.ok
        /\ call.stream.headers_buffer = call.before.headers_buffer
        /\ call.stream.response_headers = call.before.response_headers
        /\ call.resp = <<>>

\* C30: a header frame without END_HEADERS is only buffered; a frame with
\* END_HEADERS has the decoder run on the fragments of its block, those of
\* the opening HEADERS or PUSH_PROMISE and of its CONTINUATION frames, in
\* the order they arrived.
C30_DecodeWholeBlockOnly ==
    (Stepped /\ call.recv /\ call.ok
     /\ call.frame.ty \in {"Headers", "PushPromise", "Continuation"}) =>
        IF END_HEADERS \in call.frame.flags
          THEN call.block.opener # "None" =>
                  call.stream.response_headers =
                      DecodeInto(call.before.response_headers, call.block.fragments)
          ELSE /\ call.stream.response_headers = call.before.response_headers
               /\ call.stream.headers_buffer =
                      call.before.headers_buffer \o call.frame.payload

\* C31: a received frame with END_HEADERS that is handled without error
\* leaves headers_buffer empty, and response_headers has grown by one
\* decoding of the octets that were buffered plus the frame's fragment:
\* the second decode_headers call of the HEADERS arm adds nothing.
C31_DecodedExactlyOnce ==
    (Stepped /\ call.recv /\ call.ok
     /\ call.frame.ty \in {"Headers", "PushPromise", "Continuation"}
     /\ END_HEADERS \in call.frame.flags) =>
        /\ call.stream.headers_buffer = <<>>
        /\ call.stream.response_headers =
               DecodeInto(call.before.response_headers,
                          call.before.headers_buffer \o call.frame.payload)

\* C31 witness: a HEADERS frame with END_HEADERS has been handled on a
\* stream that had decoded a block before and had a fragment buffered, and
\* the fields of the new block have been added.
C31_Witness ==
    /\ Stepped /\ call.recv /\ call.ok
    /\ call.frame.ty = "Headers" /\ END_HEADERS \in call.frame.flags
    /\ call.before.response_headers # <<>>
    /\ call.before.headers_buffer # <<>>
    /\ call.stream.response_headers # call.before.response_headers

\* C32: a WINDOW_UPDATE with increment n received on the stream raises the
\* stream's window by exactly n.
C32_WindowUpdateAddsIncrement ==
    (Stepped /\ call.recv /\ call.ok /\ call.frame.ty = "WindowUpdate") =>
        call.stream.window_remaining =
            call.before.window_remaining + call.frame.payload

\* ------------------------------------------ the connection window, usize
\* window_remaining is a usize and an increment can be 2^31-1: the sums are
\* past the 32-bit integers of TLC, so a usize is kept here as
\* four 16-bit limbs, least significant first. MaxUpdates frames arrive.
MaxUpdates == 3

Limb == 65536

Wide(n) == <<n % Limb, (n \div Limb) % Limb, 0, 0>>

\* The limbs of a + b and the carry out of the top limb.
WideAdd(a, b) ==
    LET c1 == (a[1] + b[1]) \div Limb
        c2 == (a[2] + b[2] + c1) \div Limb
        c3 == (a[3] + b[3] + c2) \div Limb
        c4 == (a[4] + b[4] + c3) \div Limb
    IN [limbs |-> <<(a[1] + b[1]) % Limb, (a[2] + b[2] + c1) % Limb,
                    (a[3] + b[3] + c2) % Limb, (a[4] + b[4] + c3) % Limb>>,
        carry |-> c4]

\* a <= b
WideLeq(a, b) ==
    \/ a = b
    \/ \E i \in 1..4 : a[i] < b[i] /\ \A j \in (i + 1)..4 : a[j] = b[j]

\* usize::saturating_add, usize::MAX being `width` octets of ones.
saturating_add(a, b, width) ==
    LET sum == WideAdd(a, b)
        max == [i \in 1..4 |-> IF 2 * i <= width THEN Limb - 1 ELSE 0]
    IN IF sum.carry = 0 /\ WideLeq(sum.limbs, max) THEN sum.limbs ELSE max

\* let mut window_remaining: usize = 65_535, on a target of either width.
InitWindow ==
    /\ EngineInit
    /\ \E width \in UsizeWidths :
          call = [op |-> "connect", width |-> width, updates |-> 0,
                  window_remaining |-> Wide(InitialWindow)]

\* The WindowUpdate arm for stream 0. The increments of the peer: the
\* least, the initial window's size, the greatest that fits the initial
\* window, the one past it and the greatest there is.
WindowUpdateZero ==
    /\ call.op \in {"connect", "window_update"}
    /\ call.updates < MaxUpdates
    /\ \E increment \in {1, InitialWindow, U31_MAX - InitialWindow,
                          U31_MAX - InitialWindow + 1, U31_MAX} :
          call' = [op |-> "window_update", width |-> call.width,
                   updates |-> call.updates + 1,
                   before |-> call.window_remaining,
                   increment |-> increment,
                   window_remaining |->
                       saturating_add(call.window_remaining, Wide(increment), call.width)]
    /\ UNCHANGED engine

SpecWindow == InitWindow /\ [][WindowUpdateZero]_vars

\* C33: the connection's window is never above 2^31-1, and a WINDOW_UPDATE
\* on stream 0 that would take it above is not applied.
C33_ConnectionWindowBounded ==
    call.op = "window_update" =>
        /\ WideLeq(call.window_remaining, Wide(U31_MAX))
        /\ ~WideLeq(WideAdd(call.before, Wide(call.increment)).limbs, Wide(U31_MAX))
              => call.window_remaining = call.before

\* ------------------------------------------------- stream ids and admission
\* C34: the id allocated for a request is the id of no stream in the
\* table, and is above the id of every stream that a frame of the peer
\* created there.
C34_AllocatedIdIsFresh ==
    [][Len(admitted') > Len(admitted) =>
          LET sid == admitted'[Len(admitted')].stream
              allocated == {admitted[i].stream : i \in 1..Len(admitted)}
          IN /\ sid \notin DOMAIN streams
             /\ \A p \in DOMAIN streams \ allocated : sid > p]_vars

\* C34 witness: the first request has been admitted on stream 2, stream 1
\* being in the table by a frame of the peer.
C34_Witness ==
    /\ admitted # <<>>
    /\ admitted[1].stream = 2
    /\ 1 \in DOMAIN streams

\* C36: while the PING ACK of a dispatched PING is in the write buffer, not
\* yet written to the socket, the engine reads nothing more and dispatches
\* no further frame.
C36_PingAckBeforeFurtherInput ==
    [][(\E i \in 1..Len(write_buf) : IsPingAck(write_buf[i]))
          => rcvd'.frames = rcvd.frames]_vars

\* C37: the GOAWAY queued for a PING without ACK whose payload is not of 8
\* octets carries FRAME_SIZE_ERROR, and no PING ACK is queued for that PING:
\* the PING ACKs are as many as the PINGs of 8 octets.
C37_BadPingIsFrameSizeError ==
    rcvd.bad_pings > 0 =>
        /\ \A i \in 1..Len(Out) :
              IsGoAway(Out[i]) => Out[i].payload = ErrorType.FrameSizeError
        /\ Len(SelectSeq(Out, IsPingAck)) = Len(rcvd.pings)

\* ------------------------------------------------- Request::write_into
\* A request written into the connection's state, MaxWrites of them. A URL
\* is its host and port as url.host() and url.port() give them, "None"
\* when the URL has none (a URL such as data:text/plain,x has no host).
MaxWrites == 4

\* let authority = ..: host:port, or the host alone.
Authority(url) ==
    IF url.port # "None" THEN <<url.host, ":", url.port>> ELSE <<url.host>>

\* The frames written for the request on stream sid, fragment being the
\* header block the encoder gave.
RequestFrames(sid, fragment, body) ==
    IF body = <<>>
      THEN <<Frame("Headers", sid, {END_STREAM, END_HEADERS}, fragment)>>
      ELSE <<Frame("Headers", sid, {END_HEADERS}, fragment),
             Frame("Data", sid, {END_STREAM}, body)>>

\* A write_into that creates the stream before it looks at the URL.
Request_write_into_allocates_first(conn, request) ==
    LET ws == with_new_stream(conn.streams, conn.id)
        enc == Encoder_encode(conn.header_encoder,
                              <<<<":authority", Authority(request.url)>>>>)
        frames == RequestFrames(ws.sid, enc.octets, request.body)
        stream == SendTransition([ws.streams[ws.sid] EXCEPT !.response_tx = request.id],
                                 frames)
    IN IF request.url.host = "None"
         THEN [ok |-> FALSE,
               conn |-> [conn EXCEPT !.streams = ws.streams, !.id = ws.id]]
         ELSE [ok |-> TRUE,
               conn |-> [streams |-> [ws.streams EXCEPT ![ws.sid] = stream],
                         id |-> ws.id,
                         write_buf |-> conn.write_buf \o frames,
                         header_encoder |-> enc.encoder]]

\* Request::write_into: Err(AuthorityCannotBeBase) when the URL has no
\* host, before anything is touched; otherwise a new stream, whose sink is
\* the request's, and the request's frames in the write buffer.
Request_write_into(conn, request) ==
    IF request.url.host = "None"
      THEN [ok |-> FALSE, conn |-> conn]
      ELSE LET ws == with_new_stream(conn.streams, conn.id)
               enc == Encoder_encode(conn.header_encoder,
                                     <<<<":authority", Authority(request.url)>>>>)
               frames == RequestFrames(ws.sid, enc.octets, request.body)
               stream == SendTransition(
                             [ws.streams[ws.sid] EXCEPT !.response_tx = request.id],
                             frames)
           IN [ok |-> TRUE,
               conn |-> [streams |-> [ws.streams EXCEPT ![ws.sid] = stream],
                         id |-> ws.id,
                         write_buf |-> conn.write_buf \o frames,
                         header_encoder |-> enc.encoder]]

\* ConnectionState and StreamCoordinator of a connection that has written
\* nothing.
InitRequest ==
    /\ EngineInit
    /\ call = [op |-> "new", writes |-> 0, written |-> 0,
               conn |-> [streams |-> <<>>, id |-> 1, write_buf |-> <<>>,
                         header_encoder |-> NewTable]]

WriteRequest ==
    /\ call.op \in {"new", "write_into"}
    /\ call.writes < MaxWrites
    /\ \E request \in [id : {1}, body : Bodies,
                        url : [host : {"None", "example.org"},
                               port : {"None", "8443"}]] :
          \E r \in {Request_write_into(call.conn, request)} :
             call' = [op |-> "write_into", writes |-> call.writes + 1,
                      written |-> call.written + (IF r.ok THEN 1 ELSE 0),
                      request |-> request, before |-> call.conn,
                      ok |-> r.ok, conn |-> r.conn]
    /\ UNCHANGED engine

SpecRequest == InitRequest /\ [][WriteRequest]_vars

\* C38: writing a request whose URL has no host fails and leaves the
\* state as it was: id counter, stream table, write buffer and encoder; so
\* the request written next gets the id that follows those of the requests
\* written, the failed ones not counted.
C38_HostlessRequestChangesNothing ==
    call.op = "write_into" =>
        /\ call.request.url.host = "None" => (~call.ok /\ call.conn = call.before)
        /\ call.ok => /\ call.written \in DOMAIN call.conn.streams
                      /\ call.written \notin DOMAIN call.before.streams
                      /\ call.conn.streams[call.written].response_tx = call.request.id

\* C38 witness: the second request is the first that has been written, the
\* one before it having failed, and it is on stream 1.
C38_Witness ==
    /\ call.op = "write_into" /\ call.ok
    /\ call.writes = 2 /\ call.written = 1
    /\ call.conn.id = 2 /\ 1 \in DOMAIN call.conn.streams

\* ---------------------------------------------------- the HPACK Table
\* One Table under push, resize and get, MaxOps of them. table[1] is the
\* front of the VecDeque. `pushed` keeps every entry ever pushed, newest
\* first.
MaxOps == 4

\* TableEntry::new
TableEntry_new(name, value) ==
    [size |-> Len(name) + Len(value) + 32, name |-> name, value |-> value]

\* One turn of the loop of resize that pops the front of the deque.
PopBack_newest(t) ==
    [t EXCEPT !.current_size = t.current_size - t.table[1].size,
              !.table = Tail(t.table)]

\* One turn of the loop of resize: table.pop_back() and the subtraction.
PopBack(t) ==
    [t EXCEPT !.current_size = t.current_size - t.table[Len(t.table)].size,
              !.table = SubSeq(t.table, 1, Len(t.table) - 1)]

\* Table::resize: max_size is set, and the loop pops while the entries
\* held are over it.
RECURSIVE Table_resize(_, _)
Table_resize(t, size) ==
    IF t.current_size > size /\ t.table # <<>>
      THEN Table_resize(PopBack(t), size)
      ELSE [t EXCEPT !.max_size = size]

\* Table::push
Table_push(t, name, value) ==
    LET entry == TableEntry_new(name, value)
    IN Table_resize([t EXCEPT !.current_size = t.current_size + entry.size,
                              !.table = <<entry>> \o t.table],
                    t.max_size)

\* Table::get gives an entry of the static table (by its place in the
\* array, the first being 1), an entry of the deque, None, or it panics.
\* index - 1 and index - STATIC_TABLE.len() are usize subtractions: below
\* zero a build with overflow checks panics, and one without wraps to a
\* value past the end of either table. or_else runs its closure only when
\* the static table gave None.
Table_get(t, index, build) ==
    IF index < 1
      THEN (IF build = "debug" THEN [kind |-> "panic"] ELSE [kind |-> "None"])
      ELSE IF index - 1 < StaticLen
        THEN [kind |-> "static", place |-> (index - 1) + 1]
        ELSE IF index - StaticLen < Len(t.table)
          THEN [kind |-> "dynamic", entry |-> t.table[(index - StaticLen) + 1]]
          ELSE [kind |-> "None"]

InitTable ==
    /\ EngineInit
    /\ \E build \in {"debug", "release"} :
          call = [op |-> "new", build |-> build, ops |-> 0,
                  table |-> NewTable, pushed |-> <<>>]

\* push(name, value): the value is the number of the push, so that no two
\* entries are alike.
TablePush ==
    /\ call.op \in {"new", "push", "resize", "get"}
    /\ call.ops < MaxOps
    /\ \E name \in {<<110>>, <<110, 111, 112>>} :
          LET value == <<Len(call.pushed) + 1>>
          IN call' = [op |-> "push", build |-> call.build, ops |-> call.ops + 1,
                      before |-> call.table,
                      entry |-> TableEntry_new(name, value),
                      table |-> Table_push(call.table, name, value),
                      pushed |-> <<TableEntry_new(name, value)>> \o call.pushed]
    /\ UNCHANGED engine

TableResize ==
    /\ call.op \in {"new", "push", "resize", "get"}
    /\ call.ops < MaxOps
    /\ \E size \in {0, 34, 70, 4096} :
          call' = [op |-> "resize", build |-> call.build, ops |-> call.ops + 1,
                   before |-> call.table, size |-> size,
                   table |-> Table_resize(call.table, size),
                   pushed |-> call.pushed]
    /\ UNCHANGED engine

TableGet ==
    /\ call.op \in {"new", "push", "resize", "get"}
    /\ call.ops < MaxOps
    /\ \E index \in {0, 1, StaticLen, StaticLen + 1, StaticLen + 2, StaticLen + 3} :
          call' = [op |-> "get", build |-> call.build, ops |-> call.ops + 1,
                   before |-> call.table, index |-> index,
                   result |-> Table_get(call.table, index, call.build),
                   table |-> call.table,
                   pushed |-> call.pushed]
    /\ UNCHANGED engine

SpecTable == InitTable /\ [][TablePush \/ TableResize \/ TableGet]_vars

\* C39: after pushes and resizes current_size is the sum of name length +
\* value length + 32 over the entries held and is at most max_size; the
\* entries held are the newest of those pushed, in order; and a push of an
\* entry larger than max_size leaves the table empty, current_size 0.
C39_TableWithinBudget ==
    call.op \in {"push", "resize", "get"} =>
        LET t == call.table
        IN /\ t.current_size =
                 SumOver([i \in 1..Len(t.table) |->
                             Len(t.table[i].name) + Len(t.table[i].value) + 32],
                         1..Len(t.table))
           /\ t.current_size <= t.max_size
           /\ IsPrefix(t.table, call.pushed)
           /\ (call.op = "push" /\ call.entry.size > t.max_size)
                 => (t.table = <<>> /\ t.current_size = 0)

\* C39 witness: a push has evicted the oldest of two entries and kept the
\* newer one behind the entry pushed.
C39_Witness ==
    /\ call.op = "push"
    /\ Len(call.before.table) = 2
    /\ Len(call.table.table) = 2
    /\ call.table.table[2] = call.before.table[1]

\* C40: get(i) gives static entry i for i in 1..61; for i = 61 + k, k from
\* 1 to the number of entries held, the k-th newest entry, 62 being the
\* newest; and None for every other index.
C40_TableGet ==
    call.op = "get" =>
        LET i == call.index
            k == call.index - StaticLen
        IN IF i \in 1..StaticLen
             THEN call.result = [kind |-> "static", place |-> i]
           ELSE IF k \in 1..Len(call.table.table)
             THEN call.result = [kind |-> "dynamic", entry |-> call.table.table[k]]
             ELSE call.result = [kind |-> "None"]

\* ------------------------------------------------- the read branch, octets
\* The inner loop of the read branch over the octets of read_buf: the peer's
\* frames arrive as one octet stream, cut into reads anywhere.
MaxFrames == 2

\* A frame as the peer puts it on the wire: 3 octets of length, type,
\* flags, 4 octets of stream id, payload.
WireOctets(f) ==
    Rest(BE32(Len(into_payload(f))), 2)
    \o <<FrameTypeCode[f.ty], frame_flags(f)>>
    \o BE32(frame_stream(f))
    \o into_payload(f)

\* The length field of a frame header.
HeaderLength(header) == header[1] * 65536 + header[2] * 256 + header[3]

\* Frame::try_header_from_bytes: the 9 octets of a header split off the
\* buffer, or None (the empty header) and the buffer untouched.
try_header_from_bytes(read_buf) ==
    IF Len(read_buf) < 9
      THEN [header |-> <<>>, read_buf |-> read_buf]
      ELSE [header |-> SubSeq(read_buf, 1, 9), read_buf |-> Rest(read_buf, 10)]

\* Frame::try_read_with_header: the frame of the header and of the payload
\* split off the buffer, or None and the buffer untouched.
try_read_with_header(header, read_buf) ==
    IF Len(read_buf) < HeaderLength(header)
      THEN [some |-> FALSE, read_buf |-> read_buf]
      ELSE [some |-> TRUE,
            frame |-> read_from(header \o SubSeq(read_buf, 1, HeaderLength(header))),
            read_buf |-> Rest(read_buf, HeaderLength(header) + 1)]

\* A turn of the loop that breaks once it has dispatched a frame.
LoopTurn_breaks_after_frame(header, read_buf, frames) ==
    IF header = <<>>
      THEN LET h == try_header_from_bytes(read_buf)
           IN [header |-> h.header, read_buf |-> h.read_buf, frames |-> frames,
               break |-> h.header = <<>>]
      ELSE LET r == try_read_with_header(header, read_buf)
           IN IF r.some
                THEN [header |-> <<>>, read_buf |-> r.read_buf,
                      frames |-> Append(frames, r.frame), break |-> TRUE]
                ELSE [header |-> header, read_buf |-> read_buf, frames |-> frames,
                      break |-> TRUE]

\* One turn of the loop: with no header pending a header is taken, with one
\* pending its frame is read and dispatched; the loop breaks when either
\* gives None.
LoopTurn(header, read_buf, frames) ==
    IF header = <<>>
      THEN LET h == try_header_from_bytes(read_buf)
           IN [header |-> h.header, read_buf |-> h.read_buf, frames |-> frames,
               break |-> h.header = <<>>]
      ELSE LET r == try_read_with_header(header, read_buf)
           IN IF r.some
                THEN [header |-> <<>>, read_buf |-> r.read_buf,
                      frames |-> Append(frames, r.frame), break |-> FALSE]
                ELSE [header |-> header, read_buf |-> read_buf, frames |-> frames,
                      break |-> TRUE]

\* loop { .. }: the pending header, the buffer and the frames dispatched
\* when the loop breaks.
RECURSIVE ReadLoop(_, _, _)
ReadLoop(header, read_buf, frames) ==
    LET t == LoopTurn(header, read_buf, frames)
    IN IF t.break THEN t ELSE ReadLoop(t.header, t.read_buf, t.frames)

\* The octets of a sequence of frames, one after another.
RECURSIVE Flatten(_)
Flatten(frames) ==
    IF frames = <<>> THEN <<>> ELSE WireOctets(frames[1]) \o Flatten(Tail(frames))

\* The complete frames at the head of an octet stream, and the octets after
\* them.
RECURSIVE Framing(_)
Framing(octets) ==
    IF Len(octets) < 9 \/ Len(octets) < 9 + HeaderLength(octets)
      THEN [frames |-> <<>>, rest |-> octets]
      ELSE LET after == Framing(Rest(octets, 10 + HeaderLength(octets)))
           IN [frames |-> <<read_from(SubSeq(octets, 1, 9 + HeaderLength(octets)))>>
                          \o after.frames,
               rest |-> after.rest]

\* The peer's octet stream: one to MaxFrames frames.
InitRead ==
    /\ EngineInit
    /\ \E n \in 1..MaxFrames :
          \E fs \in [1..n ->
                      {[ty |-> "Settings", flags |-> {"ACK"}, params |-> <<>>],
                       [ty |-> "Ping", flags |-> {}, data |-> <<1, 2, 3, 4, 5, 6, 7, 8>>],
                       [ty |-> "WindowUpdate", stream |-> 0, increment |-> 1],
                       [ty |-> "Data", stream |-> 1, flags |-> {"END_STREAM"},
                        data |-> <<7, 8>>]}] :
             call = [op |-> "new", input |-> Flatten(fs), rest |-> Flatten(fs),
                     reads |-> 0, read_buf |-> <<>>, header |-> <<>>,
                     dispatched |-> <<>>]

\* reader.read_buf gives the next octets of the stream, one at least, and
\* the loop runs.
ReadOctets ==
    /\ call.op \in {"new", "read"}
    /\ \E n \in 1..Len(call.rest) :
          \E t \in {ReadLoop(call.header, call.read_buf \o SubSeq(call.rest, 1, n),
                             call.dispatched)} :
             call' = [op |-> "read", input |-> call.input, rest |-> Rest(call.rest, n + 1),
                      reads |-> call.reads + 1,
                      read_buf |-> t.read_buf, header |-> t.header,
                      dispatched |-> t.frames]
    /\ UNCHANGED engine

SpecRead == InitRead /\ [][ReadOctets]_vars

\* C35: however the stream is cut into reads, after a read the frames
\* dispatched are the complete frames of the octets arrived, in order; what
\* is left is the pending header followed by the buffer: fewer than 9 octets
\* and no header, or a whole header and less than its payload.
C35_FramingIndependentOfReads ==
    call.op = "read" =>
        LET arrived == SubSeq(call.input, 1, Len(call.input) - Len(call.rest))
        IN
        /\ call.dispatched = Framing(arrived).frames
        /\ call.header \o call.read_buf = Framing(arrived).rest
        /\ IF call.header = <<>>
             THEN Len(call.read_buf) < 9
             ELSE /\ Len(call.header) = 9
                  /\ Len(call.read_buf) < HeaderLength(call.header)

\* C35 witness: after three reads one frame has been dispatched, and the
\* header of the next is pending with a part of its payload in the buffer.
C35_Witness ==
    /\ call.op = "read" /\ call.reads = 3
    /\ Len(call.dispatched) = 1
    /\ call.header # <<>>
    /\ call.read_buf # <<>>

====
